---- MODULE Spec2Model ----
(***************************************************************************)
(* A model of mabby: bandit strategies, the Agent call-order wrapper, the  *)
(* Bandit (arm set), AgentStats / SimulationStats and Simulation.run.      *)
(*                                                                         *)
(* Conventions                                                             *)
(*  - A float is an exact rational <<n, d>> with d > 0 in lowest terms     *)
(*    (floating-point rounding is outside the model).                      *)
(*  - A numpy array of length k is a function with domain 0..k-1, so the   *)
(*    source's 0-based indices are kept.                                   *)
(*  - Play counts are far below 2^32 within the bounds, so the uint32     *)
(*    arrays are modelled by naturals.                                     *)
(*  - A numpy Generator is a record [seed, pos]; its i-th raw draw is      *)
(*    Raw(seed, i), a value in 0..RngRes-1.  Every operator that draws     *)
(*    takes the raw draws it consumes as a sequence argument d, so the     *)
(*    same operator serves a seeded stream and an arbitrary generator.     *)
(***************************************************************************)
EXTENDS Integers, Sequences, FiniteSets, TLC

\* ------------------------------------------------------------------ bounds
\* Resolution of one raw draw of a generator: values 0..RngRes-1.
RngRes ==
    4
\* Largest number of arms given to prime in the strategy-level and agent-level
\* specifications.
MaxK ==
    2
\* Largest number of strategy updates between two primes in the strategy-level
\* and agent-level specifications.
MaxUpdates ==
    2
\* Largest number of choose calls between two updates in the agent-level specification.
MaxChooses ==
    2
\* Largest `trials` / `steps` arguments of Simulation.run.
MaxTrials ==
    2
MaxSteps ==
    2
\* Largest number of agents supplied to a Simulation.
MaxAgents ==
    2
\* Number of distinct generator seeds (entropy values) considered.
NumSeeds ==
    2
\* Largest number of arms of a Bandit in the bandit-level specification.
MaxArms ==
    3
\* Largest number of AgentStats.update calls on one AgentStats in the
\* statistics-level specification.
MaxStatsUpdates ==
    3
\* Longest parameter list handed to Arm.bandit.
MaxParams ==
    2
\* Longest list of metrics handed to Metric.map_to_base.
MaxMetrics ==
    3

\* ------------------------------------------------------- program constants
\* Agent._choice is None when no choice is pending.
None ==
    -1
\* Agent._rng is declared but unassigned until prime; generators are named
\* by positive identifiers.
NoRng ==
    0

\* --------------------------------------------------------------- rationals
\* The arithmetic is defined by functions, so that an argument is a value.
GCD[a \in Nat, b \in Nat] ==
    IF b = 0 THEN a ELSE GCD[b, a % b]

Abs(x) ==
    IF x < 0 THEN -x ELSE x

Norm[n \in Int, d \in Int] ==
    LET s == IF d < 0 THEN -1 ELSE 1
        g == GCD[Abs(n), Abs(d)]
    IN  <<(s * n) \div g, (s * d) \div g>>

\* n/d in lowest terms with a positive denominator (d # 0).
Rat(n, d) ==
    Norm[n, d]

RInt(n) ==
    <<n, 1>>

RAddF[x \in Int \X Int, y \in Int \X Int] ==
    Rat(x[1] * y[2] + y[1] * x[2], x[2] * y[2])

RAdd(x, y) ==
    RAddF[x, y]

RSubF[x \in Int \X Int, y \in Int \X Int] ==
    Rat(x[1] * y[2] - y[1] * x[2], x[2] * y[2])

RSub(x, y) ==
    RSubF[x, y]

RMulInt(x, n) ==
    Rat(x[1] * n, x[2])

RDivInt(x, n) ==
    Rat(x[1], x[2] * n)

RLt(x, y) ==
    x[1] * y[2] < y[1] * x[2]

RLe(x, y) ==
    x[1] * y[2] <= y[1] * x[2]

\* floor of a rational (Python int() of a non-negative float).
RFloor(x) ==
    x[1] \div x[2]

\* ------------------------------------------------------------------ arrays
Len0(f) ==
    Cardinality(DOMAIN f)

Zeros(k) ==
    [i \in 0..(k - 1) |-> 0]

RZeros(k) ==
    [i \in 0..(k - 1) |-> RInt(0)]

Ones(k) ==
    [i \in 0..(k - 1) |-> 1]

RECURSIVE SumTo(_, _)
SumTo(f, n) ==
    IF n < 0 THEN 0 ELSE f[n] + SumTo(f, n - 1)

Sum0(f) ==
    SumTo(f, Len0(f) - 1)

\* np.max of a non-empty array of rationals; nan (the pair <<0, 0>>) if any
\* entry is nan.
RMax(f) ==
    IF \E i \in DOMAIN f : f[i] = <<0, 0>>
    THEN <<0, 0>>
    ELSE CHOOSE m \in {f[i] : i \in DOMAIN f} : \A i \in DOMAIN f : RLe(f[i], m)

\* -------------------------------------------------------------- generators
Seeds ==
    0..(NumSeeds - 1)

Draws ==
    0..(RngRes - 1)

\* The i-th raw draw (i = 0, 1, ...) of the generator seeded with `seed`.
Raw(seed, i) ==
    (seed * 3 + i * i + i * (seed + 1) + (i \div 3)) % RngRes

\* The next n raw draws of generator g, as a sequence.
Take(g, n) ==
    [j \in 1..n |-> Raw(g.seed, g.pos + j - 1)]

Advance(g, n) ==
    [g EXCEPT !.pos = @ + n]

\* rng.random(): a float in [0, 1).
RngRandom(r) ==
    Rat(r, RngRes)

\* rng.integers(0, k): an index in 0..k-1.
RngIntegers(r, k) ==
    r % k

\* rng.binomial(1, p): 1 with probability p.
RngBinomial(r, p) ==
    IF RLt(RngRandom(r), p) THEN 1 ELSE 0

\* rng.normal(loc, scale): loc plus scale times a standard normal deviate,
\* discretised to the integers -(RngRes \div 2) .. RngRes - 1 - (RngRes \div 2).
RngNormal(r, loc, scale) ==
    RAdd(loc, RMulInt(scale, r - (RngRes \div 2)))

\* rng.beta(a, b): a value strictly between 0 and 1, increasing in the raw
\* draw, equal to the uniform quantile when a = b.
RngBeta(r, a, b) ==
    Rat(a * (r + 1), a * (r + 1) + b * (RngRes - r))

\* The indices of the maximal entries, in increasing order (np.where); nan
\* equals no entry, itself included.
Candidates(values) ==
    LET m == RMax(values)
        S == {i \in DOMAIN values : values[i] = m /\ m # <<0, 0>>}
        R[T \in SUBSET S] ==
            IF T = {} THEN <<>>
            ELSE LET lo == CHOOSE x \in T : \A y \in T : x <= y
                 IN  <<lo>> \o R[T \ {lo}]
    IN  R[S]

\* Mutant: the first index of a maximum, as np.argmax.
random_argmaxFirst(values, r) ==
    Candidates(values)[1]

\* utils.random_argmax: rng.choice among the indices of the maxima.
random_argmax(values, r) ==
    LET c == Candidates(values)
    IN  c[(r % Len(c)) + 1]

\* rng.choice of an empty candidate array raises ValueError.
random_argmaxRaises(values) ==
    Candidates(values) = <<>>

\* -------------------------------------------------------------- strategies
\* A strategy object: its constructor parameters (kind, eps, alpha, general)
\* and its estimator state.  Attributes not yet assigned by prime are the
\* empty array <<>> (arrays) and 0 (counters).
NewStrategy(kind, eps, alpha, general) ==
    [kind |-> kind, eps |-> eps, alpha |-> alpha, general |-> general,
     Qs |-> <<>>, Ns |-> <<>>, t |-> 0, a |-> <<>>, b |-> <<>>, explore |-> 0]

RandomStrategy ==
    NewStrategy("random", RInt(1), RInt(0), FALSE)

EpsilonGreedyStrategy(eps) ==
    NewStrategy("epsgreedy", eps, RInt(0), FALSE)

EpsilonFirstStrategy(eps) ==
    NewStrategy("epsfirst", eps, RInt(0), FALSE)

UCB1Strategy(alpha) ==
    NewStrategy("ucb1", RInt(0), alpha, FALSE)

BetaTSStrategy(general) ==
    NewStrategy("betats", RInt(0), RInt(0), general)

IsSemiUniform(s) ==
    s.kind \in {"random", "epsgreedy", "epsfirst"}

\* --- prime
SemiUniformPrime(s, k, steps) ==
    [s EXCEPT !.Qs = RZeros(k), !.Ns = Zeros(k)]

EpsilonFirstPrime(s, k, steps) ==
    [SemiUniformPrime(s, k, steps) EXCEPT
        !.explore = RFloor(RMulInt(s.eps, steps))]

\* Mutant: prime keeps the step count of the previous trial.
UCB1PrimeKeepsT(s, k, steps) ==
    [s EXCEPT !.Qs = RZeros(k), !.Ns = Zeros(k)]

UCB1Prime(s, k, steps) ==
    [s EXCEPT !.t = 0, !.Qs = RZeros(k), !.Ns = Zeros(k)]

\* Mutant: prime re-creates b but keeps an existing posterior a of the same size.
BetaTSPrimeKeepsA(s, k, steps) ==
    [s EXCEPT !.a = IF Len0(@) = k THEN @ ELSE Ones(k), !.b = Ones(k)]

BetaTSPrime(s, k, steps) ==
    [s EXCEPT !.a = Ones(k), !.b = Ones(k)]

StrategyPrime(s, k, steps) ==
    CASE s.kind = "epsfirst" -> EpsilonFirstPrime(s, k, steps)
      [] s.kind = "ucb1"     -> UCB1Prime(s, k, steps)
      [] s.kind = "betats"   -> BetaTSPrime(s, k, steps)
      [] OTHER               -> SemiUniformPrime(s, k, steps)

\* --- Qs / Ns
BetaTSQs(s) ==
    [i \in DOMAIN s.a |-> Rat(s.a[i], s.a[i] + s.b[i])]

BetaTSNs(s) ==
    [i \in DOMAIN s.a |-> (s.a[i] + s.b[i]) - 2]

StrategyQs(s) ==
    IF s.kind = "betats" THEN BetaTSQs(s) ELSE s.Qs

StrategyNs(s) ==
    IF s.kind = "betats" THEN BetaTSNs(s) ELSE s.Ns

\* Number of arms the strategy was primed with.
StrategyK(s) ==
    Len0(StrategyNs(s))

\* --- choose
\* Mutant: epsilon-greedy explores with probability 1 - eps.
effective_epsComplement(s) ==
    CASE s.kind = "random"   -> RInt(1)
      [] s.kind = "epsfirst" -> IF s.explore > 0 THEN RInt(1) ELSE RInt(0)
      [] OTHER               -> RSub(RInt(1), s.eps)

effective_eps(s) ==
    CASE s.kind = "random"   -> RInt(1)
      [] s.kind = "epsfirst" -> IF s.explore > 0 THEN RInt(1) ELSE RInt(0)
      [] OTHER               -> s.eps

\* Mutant: the upper end of the range is included (endpoint=True).
SemiUniformExploreClosed(s, r) ==
    RngIntegers(r, Len0(s.Ns) + 1)

SemiUniformExplore(s, r) ==
    RngIntegers(r, Len0(s.Ns))

SemiUniformExploit(s, r) ==
    random_argmax(s.Qs, r)

\* Mutant: the test of the uniform draw is inverted.
SemiUniformChooseInverted(s, d) ==
    IF RLt(RngRandom(d[1]), effective_eps(s))
    THEN SemiUniformExploit(s, d[2])
    ELSE SemiUniformExplore(s, d[2])

\* One uniform draw decides explore / exploit, a second one picks the arm.
SemiUniformChoose(s, d) ==
    IF RLt(RngRandom(d[1]), effective_eps(s))
    THEN SemiUniformExplore(s, d[2])
    ELSE SemiUniformExploit(s, d[2])

\* ln(t) in millionths, t >= 1 (np.log).
LnMicro(t) ==
    CASE t = 1 -> 0
      [] t = 2 -> 693147
      [] t = 3 -> 1098612
      [] t = 4 -> 1386294
      [] t = 5 -> 1609438
      [] t = 6 -> 1791759
      [] t = 7 -> 1945910
      [] t = 8 -> 2079442
      [] OTHER -> 2197225

RECURSIVE ISqrtIn(_, _, _)
ISqrtIn(n, lo, hi) ==
    IF lo >= hi THEN lo
    ELSE LET mid == (lo + hi + 1) \div 2
         IN  IF mid * mid <= n THEN ISqrtIn(n, mid, hi)
                               ELSE ISqrtIn(n, lo, mid - 1)

\* floor(sqrt(n)) for 0 <= n < 4000000.
ISqrt(n) ==
    ISqrtIn(n, 0, 2000)

\* +infinity and not-a-number as pairs with denominator 0.
RInf ==
    <<1, 0>>

RNaN ==
    <<0, 0>>

\* Qs + alpha * sqrt(log(t) / Ns), the square root to three decimals.
\* A zero play count divides by zero: numpy yields inf (nan for 0/0 or 0*inf).
UCB1ComputeUCBs(s) ==
    [i \in DOMAIN s.Ns |->
        IF s.Ns[i] = 0
        THEN IF LnMicro(s.t) = 0 \/ s.alpha = RInt(0) THEN RNaN ELSE RInf
        ELSE RAdd(s.Qs[i],
                  RDivInt(RMulInt(s.alpha, ISqrt(LnMicro(s.t) \div s.Ns[i])),
                          1000))]

\* Mutant: the forced first round plays arm 0 only.
UCB1ChooseFirstArm(s, d) ==
    IF s.t < Len0(s.Ns)
    THEN 0
    ELSE random_argmax(UCB1ComputeUCBs(s), d[1])

UCB1Choose(s, d) ==
    IF s.t < Len0(s.Ns)
    THEN s.t
    ELSE random_argmax(UCB1ComputeUCBs(s), d[1])

BetaTSChoose(s, d) ==
    LET k == Len0(s.a)
        samples == [i \in 0..(k - 1) |-> RngBeta(d[i + 1], s.a[i], s.b[i])]
    IN  random_argmax(samples, d[k + 1])

StrategyChoose(s, d) ==
    CASE s.kind = "ucb1"   -> UCB1Choose(s, d)
      [] s.kind = "betats" -> BetaTSChoose(s, d)
      [] OTHER             -> SemiUniformChoose(s, d)

\* choose raises the ValueError of random_argmax: only the UCBs can hold nan.
StrategyChooseRaises(s) ==
    /\ s.kind = "ucb1"
    /\ s.t >= Len0(s.Ns)
    /\ random_argmaxRaises(UCB1ComputeUCBs(s))

\* Number of raw draws one choose call takes from the generator.
ChooseDraws(s) ==
    CASE s.kind = "ucb1"   -> IF s.t < Len0(s.Ns) THEN 0 ELSE 1
      [] s.kind = "betats" -> Len0(s.a) + 1
      [] OTHER             -> 2

\* --- update: the result is [err, strategy]; err = "none" on success.
Ok(s) ==
    [err |-> "none", strategy |-> s]

Raise(e, s) ==
    [err |-> e, strategy |-> s]

\* Mutant: the step towards the reward is not divided by the play count.
SampleMeanUndivided(s, choice, reward) ==
    LET n == s.Ns[choice] + 1
    IN  [s EXCEPT !.Ns[choice] = n,
                  !.Qs[choice] = RAdd(@, RSub(reward, @))]

\* Ns[choice] += 1; Qs[choice] += (reward - Qs[choice]) / Ns[choice]
SampleMean(s, choice, reward) ==
    LET n == s.Ns[choice] + 1
    IN  [s EXCEPT !.Ns[choice] = n,
                  !.Qs[choice] = RAdd(@, RDivInt(RSub(reward, @), n))]

\* Mutant: the update is booked on arm 0 whatever the choice.
SemiUniformUpdateFirstArm(s, choice, reward) ==
    SampleMean(s, 0, reward)

SemiUniformUpdate(s, choice, reward) ==
    SampleMean(s, choice, reward)

\* Mutant: the remaining-exploration counter is decremented unconditionally.
EpsilonFirstUpdateUnbounded(s, choice, reward) ==
    LET u == SemiUniformUpdate(s, choice, reward)
    IN  [u EXCEPT !.explore = @ - 1]

EpsilonFirstUpdate(s, choice, reward) ==
    LET u == SemiUniformUpdate(s, choice, reward)
    IN  IF u.explore > 0 THEN [u EXCEPT !.explore = @ - 1] ELSE u

\* Mutant: update leaves the step count alone.
UCB1UpdateKeepsT(s, choice, reward) ==
    SampleMean(s, choice, reward)

\* Mutant: update counts a play on every arm.
UCB1UpdateAllArms(s, choice, reward) ==
    LET u == SampleMean([s EXCEPT !.t = @ + 1], choice, reward)
    IN  [u EXCEPT !.Ns = [i \in DOMAIN s.Ns |-> s.Ns[i] + 1]]

UCB1Update(s, choice, reward) ==
    SampleMean([s EXCEPT !.t = @ + 1], choice, reward)

\* Mutant: the reward checks come before the generator check.
BetaTSUpdateCheckRewardFirst(s, reward, hasRng) ==
    IF s.general /\ (RLt(RInt(1), reward) \/ RLt(reward, RInt(0)))
    THEN "general rewards"
    ELSE IF ~s.general /\ reward # RInt(0) /\ reward # RInt(1)
    THEN "Bernoulli rewards"
    ELSE IF ~hasRng
    THEN "rng"
    ELSE "none"

\* Mutant: the non-general variant accepts any reward.
BetaTSUpdateCheckNoBernoulli(s, reward, hasRng) ==
    IF ~hasRng
    THEN "rng"
    ELSE IF s.general /\ (RLt(RInt(1), reward) \/ RLt(reward, RInt(0)))
    THEN "general rewards"
    ELSE "none"

\* The checks of BetaTSStrategy.update in their order: the one that raises
\* ("TS strategies require rng", "... rewards from 0 to 1", "... Bernoulli
\* rewards"), or "none".
BetaTSUpdateCheck(s, reward, hasRng) ==
    IF ~hasRng
    THEN "rng"
    ELSE IF s.general /\ (RLt(RInt(1), reward) \/ RLt(reward, RInt(0)))
    THEN "general rewards"
    ELSE IF ~s.general /\ reward # RInt(0) /\ reward # RInt(1)
    THEN "Bernoulli rewards"
    ELSE "none"

\* Mutant: every update adds one to b, a success included.
BetaTSUpdateCountsFailure(s, choice, reward, hasRng, d) ==
    IF BetaTSUpdateCheck(s, reward, hasRng) # "none"
    THEN Raise("StrategyUsageError", s)
    ELSE LET pseudo == IF s.general THEN RngBinomial(d[1], reward)
                                   ELSE reward[1]
         IN  Ok([s EXCEPT !.a[choice] = @ + pseudo,
                          !.b[choice] = @ + 1])

\* Mutant: the pseudo-reward is added to b and its complement to a.
BetaTSUpdateSwapped(s, choice, reward, hasRng, d) ==
    IF BetaTSUpdateCheck(s, reward, hasRng) # "none"
    THEN Raise("StrategyUsageError", s)
    ELSE LET pseudo == IF s.general THEN RngBinomial(d[1], reward)
                                   ELSE reward[1]
         IN  Ok([s EXCEPT !.a[choice] = @ + (1 - pseudo),
                          !.b[choice] = @ + pseudo])

\* hasRng: whether a generator was passed; d: the raw draw for the
\* Bernoulli(reward) pseudo-reward of the general variant.
BetaTSUpdate(s, choice, reward, hasRng, d) ==
    IF BetaTSUpdateCheck(s, reward, hasRng) # "none"
    THEN Raise("StrategyUsageError", s)
    ELSE LET pseudo == IF s.general THEN RngBinomial(d[1], reward)
                                   ELSE reward[1]
         IN  Ok([s EXCEPT !.a[choice] = @ + pseudo,
                          !.b[choice] = @ + (1 - pseudo)])

\* The check that refuses update(choice, reward, rng), for any strategy.
StrategyUpdateCheck(s, reward, hasRng) ==
    IF s.kind = "betats" THEN BetaTSUpdateCheck(s, reward, hasRng) ELSE "none"

StrategyUpdate(s, choice, reward, hasRng, d) ==
    CASE s.kind = "epsfirst" -> Ok(EpsilonFirstUpdate(s, choice, reward))
      [] s.kind = "ucb1"     -> Ok(UCB1Update(s, choice, reward))
      [] s.kind = "betats"   -> BetaTSUpdate(s, choice, reward, hasRng, d)
      [] OTHER               -> Ok(SemiUniformUpdate(s, choice, reward))

\* Number of raw draws one update call takes from the generator.
UpdateDraws(s, reward) ==
    IF s.kind = "betats" /\ s.general
       /\ RLe(RInt(0), reward) /\ RLe(reward, RInt(1))
    THEN 1 ELSE 0

\* ------------------------------------------------------------------- agent
NewAgent(strategy) ==
    [strategy |-> strategy, primed |-> FALSE, choice |-> None, rng |-> NoRng]

AgentPrime(a, k, steps, rng) ==
    [a EXCEPT !.primed = TRUE, !.choice = None, !.rng = rng,
              !.strategy = StrategyPrime(@, k, steps)]

\* The result of an Agent call: err ("none" on success), the agent after the
\* call, the value returned, whether the strategy was called, and the choice
\* handed to the strategy (update).
AgentResult(err, a, ret, called, passed) ==
    [err |-> err, agent |-> a, ret |-> ret, called |-> called, passed |-> passed]

AgentChoose(a, d) ==
    IF ~a.primed
    THEN AgentResult("AgentUsageError", a, None, FALSE, None)
    ELSE IF StrategyChooseRaises(a.strategy)
    THEN AgentResult("ValueError", a, None, TRUE, None)
    ELSE LET c == StrategyChoose(a.strategy, d)
         IN  AgentResult("none", [a EXCEPT !.choice = c], c, TRUE, None)

\* Mutant: update does not clear the pending choice.
AgentUpdateKeepsChoice(a, reward, d) ==
    IF a.choice = None
    THEN AgentResult("AgentUsageError", a, None, FALSE, None)
    ELSE LET u == StrategyUpdate(a.strategy, a.choice, reward, a.rng # NoRng, d)
         IN  AgentResult(u.err, [a EXCEPT !.strategy = u.strategy],
                         None, TRUE, a.choice)

\* Mutant: the pending choice is cleared even when the strategy raises.
AgentUpdateClearsOnError(a, reward, d) ==
    IF a.choice = None
    THEN AgentResult("AgentUsageError", a, None, FALSE, None)
    ELSE LET u == StrategyUpdate(a.strategy, a.choice, reward, a.rng # NoRng, d)
         IN  AgentResult(u.err, [a EXCEPT !.strategy = u.strategy, !.choice = None],
                         None, TRUE, a.choice)

AgentUpdate(a, reward, d) ==
    IF a.choice = None
    THEN AgentResult("AgentUsageError", a, None, FALSE, None)
    ELSE LET u == StrategyUpdate(a.strategy, a.choice, reward, a.rng # NoRng, d)
         IN  IF u.err # "none"
             THEN AgentResult(u.err, [a EXCEPT !.strategy = u.strategy],
                              None, TRUE, a.choice)
             ELSE AgentResult("none",
                              [a EXCEPT !.strategy = u.strategy, !.choice = None],
                              None, TRUE, a.choice)

\* Mutant: Qs is read without the primed check.
AgentQsUnchecked(a) ==
    AgentResult("none", a, StrategyQs(a.strategy), TRUE, None)

AgentQs(a) ==
    IF ~a.primed
    THEN AgentResult("AgentUsageError", a, <<>>, FALSE, None)
    ELSE AgentResult("none", a, StrategyQs(a.strategy), TRUE, None)

AgentNs(a) ==
    IF ~a.primed
    THEN AgentResult("AgentUsageError", a, <<>>, FALSE, None)
    ELSE AgentResult("none", a, StrategyNs(a.strategy), TRUE, None)

\* Raw draws an Agent.choose / Agent.update call takes from the agent's generator.
AgentChooseDraws(a) ==
    IF a.primed THEN ChooseDraws(a.strategy) ELSE 0

AgentUpdateDraws(a, reward) ==
    IF a.choice # None THEN UpdateDraws(a.strategy, reward) ELSE 0

\* -------------------------------------------------------------------- arms
BernoulliArm(p) ==
    [kind |-> "bernoulli", p |-> p, loc |-> RInt(0), scale |-> RInt(0)]

GaussianArm(loc, scale) ==
    [kind |-> "gaussian", p |-> RInt(0), loc |-> loc, scale |-> scale]

ArmMean(arm) ==
    IF arm.kind = "bernoulli" THEN arm.p ELSE arm.loc

\* Arm.play(rng): one draw of the generator handed in.
ArmPlay(arm, r) ==
    IF arm.kind = "bernoulli"
    THEN RInt(RngBinomial(r, arm.p))
    ELSE RngNormal(r, arm.loc, arm.scale)

\* ------------------------------------------------------------------ bandit
\* The 0-based array holding the elements of a sequence.
Arr(seq) ==
    [i \in 0..(Len(seq) - 1) |-> seq[i + 1]]

\* Bandit(arms, rng, seed): the arm list and the bandit's own generator,
\* named by its identifier.
NewBandit(arms, rng) ==
    [arms |-> arms, rng |-> rng]

BanditLen(b) ==
    Len0(b.arms)

\* The generator Bandit.play hands to the arm: the bandit's own (self._rng).
\* self._arms[i] raises IndexError: a Python list takes -len..len-1.
BanditIndexError(b, i) ==
    i >= BanditLen(b) \/ i < -BanditLen(b)

\* Bandit.__getitem__(i): self._arms[i]; a negative index counts from the end.
BanditGetItem(b, i) ==
    b.arms[IF i < 0 THEN i + BanditLen(b) ELSE i]

BanditPlayRng(b) ==
    b.rng

\* Bandit.play(i): arm i is sampled; d holds the draw taken from the
\* generator BanditPlayRng names.
BanditPlay(b, i, d) ==
    ArmPlay(BanditGetItem(b, i), d[1])

BanditMeans(b) ==
    [i \in DOMAIN b.arms |-> ArmMean(b.arms[i])]

\* Bandit.best_arm(): random_argmax of the means; r is the draw taken from
\* the bandit's own generator.
BanditBestArm(b, r) ==
    random_argmax(BanditMeans(b), r)

\* Mutant: only the first arm of maximal mean counts as optimal.
BanditIsOptFirstOnly(b, choice) ==
    choice = Candidates(BanditMeans(b))[1]

BanditIsOpt(b, choice) ==
    RMax(BanditMeans(b)) = ArmMean(BanditGetItem(b, choice))

BanditRegret(b, choice) ==
    RSub(RMax(BanditMeans(b)), ArmMean(BanditGetItem(b, choice)))

\* ------------------------------------------------------------------- stats
AllMetrics ==
    {"REGRET", "REWARDS", "OPTIMALITY", "CUM_REGRET", "CUM_REWARDS"}

MetricBase(m) ==
    CASE m = "CUM_REGRET"  -> "REGRET"
      [] m = "CUM_REWARDS" -> "REWARDS"
      [] OTHER             -> m

\* Metric.is_base(): the metric was declared without a base and a transform.
MetricIsBase(m) ==
    m \in {"REGRET", "REWARDS", "OPTIMALITY"}

\* Mutant: the requested metrics are returned as they are.
MapToBaseUntraced(metrics) ==
    metrics

MapToBase(metrics) ==
    {MetricBase(m) : m \in metrics}

\* AgentStats(agent, bandit, steps, metrics): zero counts and one zero sum
\* array per tracked base metric.
NewAgentStats(agent, steps, metrics) ==
    [agent |-> agent, steps |-> steps, counts |-> Zeros(steps),
     stats |-> [m \in MapToBase(metrics) |-> RZeros(steps)]]

\* Mutant: update adds to the sums but does not count the trial.
AgentStatsUpdateNoCount(as, b, step, choice, reward) ==
    [as EXCEPT !.stats = [m \in DOMAIN @ |->
                            IF m = "REWARDS"
                            THEN [@[m] EXCEPT ![step] = RAdd(@, reward)]
                            ELSE @[m]]]

\* Mutant: every base metric is summed, requested or not.
AgentStatsUpdateAllBases(as, b, step, choice, reward) ==
    LET regret == BanditRegret(b, choice)
        opt    == IF BanditIsOpt(b, choice) THEN 1 ELSE 0
        old(m) == IF m \in DOMAIN as.stats THEN as.stats[m] ELSE RZeros(as.steps)
        add(m, arr) ==
            CASE m = "REGRET"     -> [arr EXCEPT ![step] = RAdd(@, regret)]
              [] m = "OPTIMALITY" -> [arr EXCEPT ![step] = RAdd(@, RInt(opt))]
              [] m = "REWARDS"    -> [arr EXCEPT ![step] = RAdd(@, reward)]
    IN  [as EXCEPT !.stats = [m \in {"REGRET", "OPTIMALITY", "REWARDS"} |->
                                add(m, old(m))],
                   !.counts[step] = @ + 1]

AgentStatsUpdate(as, b, step, choice, reward) ==
    LET regret == BanditRegret(b, choice)
        opt    == IF BanditIsOpt(b, choice) THEN 1 ELSE 0
        add(m, arr) ==
            CASE m = "REGRET"     -> [arr EXCEPT ![step] = RAdd(@, regret)]
              [] m = "OPTIMALITY" -> [arr EXCEPT ![step] = RAdd(@, RInt(opt))]
              [] m = "REWARDS"    -> [arr EXCEPT ![step] = RAdd(@, reward)]
    IN  [as EXCEPT !.stats = [m \in DOMAIN @ |-> add(m, @[m])],
                   !.counts[step] = @ + 1]

\* x / n as numpy divides under errstate(divide="ignore", invalid="ignore"):
\* 0 / 0 is nan, x / 0 is inf with the sign of x.
RDivExt(x, n) ==
    IF n # 0 THEN RDivInt(x, n)
    ELSE IF x[1] = 0 THEN RNaN
    ELSE IF x[1] > 0 THEN RInf
    ELSE <<-1, 0>>

\* x + y on floats that may be nan or infinite.
RAddExt(x, y) ==
    IF x = RNaN \/ y = RNaN THEN RNaN
    ELSE IF x[2] = 0 /\ y[2] = 0 THEN (IF x = y THEN x ELSE RNaN)
    ELSE IF x[2] = 0 THEN x
    ELSE IF y[2] = 0 THEN y
    ELSE RAdd(x, y)

\* np.cumsum(values): out[i] = out[i-1] + values[i].
CumSum(values) ==
    LET out[i \in DOMAIN values] ==
            IF i = 0 THEN values[0] ELSE RAddExt(out[i - 1], values[i])
    IN  [i \in DOMAIN values |-> out[i]]

\* Metric.transform(values): the mapping's transform, or the values themselves.
MetricTransform(m, values) ==
    IF MetricBase(m) # m THEN CumSum(values) ELSE values

\* Mutant: the sums are accumulated first and then divided by the counts.
AgentStatsGetSumsFirst(as, m) ==
    IF MetricBase(m) \notin DOMAIN as.stats
    THEN [err |-> "KeyError", ret |-> <<>>]
    ELSE LET sums == MetricTransform(m, as.stats[MetricBase(m)])
         IN  [err |-> "none",
              ret |-> [i \in DOMAIN as.counts |-> RDivExt(sums[i], as.counts[i])]]

\* Mutant: a zero count is refused instead of dividing by it.
AgentStatsGetStrict(as, m) ==
    IF MetricBase(m) \notin DOMAIN as.stats
    THEN [err |-> "KeyError", ret |-> <<>>]
    ELSE IF \E i \in DOMAIN as.counts : as.counts[i] = 0
    THEN [err |-> "ZeroDivisionError", ret |-> <<>>]
    ELSE LET values == [i \in DOMAIN as.counts |->
                          RDivExt(as.stats[MetricBase(m)][i], as.counts[i])]
         IN  [err |-> "none", ret |-> MetricTransform(m, values)]

\* AgentStats.__getitem__(metric): the sums of the base metric divided by
\* the counts, then transformed; an untracked base metric is a missing key.
AgentStatsGet(as, m) ==
    IF MetricBase(m) \notin DOMAIN as.stats
    THEN [err |-> "KeyError", ret |-> <<>>]
    ELSE LET values == [i \in DOMAIN as.counts |->
                          RDivExt(as.stats[MetricBase(m)][i], as.counts[i])]
         IN  [err |-> "none", ret |-> MetricTransform(m, values)]

\* The metrics AgentStats.__init__ traces to their bases:
\* list(Metric) if metrics is None else metrics.
MetricsOrAll(given, metrics) ==
    IF given THEN metrics ELSE AllMetrics

\* SimulationStats.add: _stats_dict[agent_stats.agent] = agent_stats
SimulationStatsAdd(dict, as) ==
    [k \in DOMAIN dict \cup {as.agent} |-> IF k = as.agent THEN as ELSE dict[k]]

\* Mutant: the entry is stored under the key whatever agent it belongs to.
SimulationStatsSetItemUnchecked(dict, agent, as) ==
    [err |-> "none",
     dict |-> [k \in DOMAIN dict \cup {agent} |-> IF k = agent THEN as ELSE dict[k]]]

\* SimulationStats.__setitem__(agent, agent_stats): refused when the key is
\* not the agent of the value, stored otherwise.
SimulationStatsSetItem(dict, agent, as) ==
    IF agent # as.agent
    THEN [err |-> "StatsUsageError", dict |-> dict]
    ELSE [err |-> "none",
          dict |-> [k \in DOMAIN dict \cup {agent} |->
                      IF k = agent THEN as ELSE dict[k]]]

\* SimulationStats.__getitem__(agent): a missing key is a KeyError.
SimulationStatsGetItem(dict, agent) ==
    IF agent \in DOMAIN dict
    THEN [err |-> "none", ret |-> dict[agent]]
    ELSE [err |-> "KeyError", ret |-> <<>>]

\* SimulationStats.__contains__(agent)
SimulationStatsContains(dict, agent) ==
    agent \in DOMAIN dict

\* The objects created so far: objs[i] is the content of AgentStats object
\* i and dicts[d] the _stats_dict of SimulationStats object d (agent ->
\* AgentStats object); cur and curd are the objects the locals agent_stats
\* and sim_stats of run name, retd the SimulationStats an earlier run returned.
NoHeap ==
    [objs |-> <<>>, cur |-> 0, dicts |-> <<>>, curd |-> 0, retd |-> 0]

\* Mutant: run keeps filling the SimulationStats it filled before.
HeapNewDictReused(h) ==
    IF h.curd = 0
    THEN [h EXCEPT !.dicts = Append(@, <<>>), !.curd = Len(h.dicts) + 1]
    ELSE h

\* sim_stats = SimulationStats(simulation=self): a new, empty object.
HeapNewDict(h) ==
    [h EXCEPT !.dicts = Append(@, <<>>), !.curd = Len(h.dicts) + 1]

\* agent_stats = AgentStats(...): a new object with content as.
HeapNewObj(h, as) ==
    [h EXCEPT !.objs = Append(@, as), !.cur = Len(h.objs) + 1]

\* A write through agent_stats: the object it names now has content as.
HeapWrite(h, as) ==
    [h EXCEPT !.objs[h.cur] = as]

\* sim_stats.add(agent_stats): the dict refers to the object under its agent.
HeapAdd(h, agent) ==
    [h EXCEPT !.dicts[h.curd] =
        [k \in DOMAIN @ \cup {agent} |-> IF k = agent THEN h.cur ELSE @[k]]]

\* The content of SimulationStats object d: agent -> AgentStats content.
HeapStats(h, d) ==
    [a \in DOMAIN h.dicts[d] |-> h.objs[h.dicts[d][a]]]

\* ------------------------------------------------------------------ inputs
\* The strategies considered, one parameter value per variant.
StrategyList ==
    <<RandomStrategy,
      EpsilonGreedyStrategy(Rat(1, 2)),
      EpsilonFirstStrategy(Rat(1, 2)),
      UCB1Strategy(RInt(1)),
      BetaTSStrategy(FALSE),
      BetaTSStrategy(TRUE)>>

\* The parameter values at the ends of their ranges: never / always exploring,
\* a trial that explores throughout, and no exploration bonus.
EdgeStrategies ==
    {EpsilonGreedyStrategy(RInt(0)),
     EpsilonGreedyStrategy(RInt(1)),
     EpsilonFirstStrategy(RInt(1)),
     UCB1Strategy(RInt(0))}

\* The strategies a strategy-level or agent-level behaviour starts from.
StrategyConfigs ==
    {StrategyList[i] : i \in 1..Len(StrategyList)} \cup EdgeStrategies

\* The rewards a caller may pass to update: inside and outside {0, 1} and [0, 1].
Rewards ==
    {RInt(0), Rat(1, 2), RInt(1), RInt(2)}

\* The agent lists supplied to a Simulation: n agents, one per strategy, taken
\* in StrategyList order starting anywhere (n = 0: the empty list).
AgentLists ==
    {[i \in 1..n |-> NewAgent(StrategyList[((from + i - 2) % Len(StrategyList)) + 1])] :
        from \in 1..Len(StrategyList), n \in 0..MaxAgents}

\* The arm lists: Bernoulli arms (rewards 0 / 1), Gaussian arms (any reward),
\* and no arm at all.
ArmLists ==
    {Arr(<<BernoulliArm(Rat(1, 2)), BernoulliArm(RInt(1))>>),
     Arr(<<GaussianArm(RInt(0), RInt(0)), GaussianArm(Rat(1, 2), RInt(1))>>),
     Arr(<<>>)}

\* ------------------------------------------------------------------- state
VARIABLES
    st,          \* strategy-level specification: the strategy object
    slast,       \* ... and its last call
    supd,        \* ... the successful updates since the last prime: <<choice, reward>>
    sarg,        \* ... the reward and generator arguments of the last update call
    sdraw,       \* traced strategy calls: the raw draws the last call took
    sprime,      \* ... the arguments k and steps of the most recent prime
    twin,        \* ... a second strategy object given the same calls, and its last call
    ag,          \* agent-level specification: the agent object
    last,        \* ... its last call
    chooses,     \* ... successful choose calls since the last prime or successful update
    aprime,      \* ... the arm count k given to the most recent prime (0: never primed)
    rejected,    \* ... whether the strategy refused an update since the last choose or prime
    sim,         \* the Simulation object: construction state, kind of `agents`, its generator
    agents,      \* the Agent objects supplied (index = identity)
    bandit,      \* the Bandit object
    rngs,        \* the generators, by identifier: [seed, pos]
    run,         \* Simulation.run: program counter, arguments and locals
    agent_stats, \* the AgentStats under construction in _run_trials_for_agent
    sim_stats,   \* the SimulationStats of the current run: agent -> AgentStats
    log,         \* the calls made by run, in order
    first,       \* the outcome of an earlier, identically configured run
    heap,        \* the AgentStats and SimulationStats objects created, by identity
    blast,       \* bandit-level specification: the last call on the Bandit
    stlast       \* statistics-level specification: the last call on the AgentStats

stratVars ==
    <<st, slast, supd, sarg, sdraw, sprime, twin>>

agentVars ==
    <<ag, last, chooses, aprime, rejected>>

simVars ==
    <<sim, agents, bandit, rngs, run, agent_stats, sim_stats, log, first, heap>>

unitVars ==
    <<blast, stlast>>

vars ==
    <<st, slast, supd, sarg, sdraw, sprime, twin, ag, last, chooses, aprime, rejected,
      sim, agents, bandit, rngs, run, agent_stats, sim_stats, log, first, heap,
      blast, stlast>>

\* A strategy call: op, its outcome err, the value returned ret, its argument
\* arg (k of prime, choice of update), steps of prime, and the number of plays
\* the strategy had recorded before the call.
StratCall(op, err, ret, arg, steps, before) ==
    [op |-> op, err |-> err, ret |-> ret, arg |-> arg, steps |-> steps,
     before |-> before]

NoCall ==
    StratCall("none", "none", None, None, None, 0)

\* The arguments of an update call: the reward, whether a generator was
\* passed, and the check of the strategy that refused the call ("none": no check did).
UpdateArgs(reward, hasRng, check) ==
    [reward |-> reward, hasRng |-> hasRng, check |-> check]

NoArgs ==
    UpdateArgs(RInt(0), FALSE, "none")

\* The arguments of a prime call; k = 0: no prime was made.
PrimeArgs(k, steps) ==
    [k |-> k, steps |-> steps]

NoTwin ==
    [st |-> RandomStrategy, last |-> NoCall]

StratIdle ==
    /\ st = RandomStrategy
    /\ slast = NoCall
    /\ supd = <<>>
    /\ sarg = NoArgs
    /\ sdraw = <<>>
    /\ sprime = PrimeArgs(0, 0)
    /\ twin = NoTwin

\* An Agent call: op, the result's err / called / passed, the reward argument
\* (update), and n, the value of `chooses` when the call was made.
AgentCall(op, res, reward, n) ==
    [op |-> op, err |-> res.err, called |-> res.called, passed |-> res.passed,
     reward |-> reward, n |-> n]

NoAgentCall ==
    [op |-> "none", err |-> "none", called |-> FALSE, passed |-> None,
     reward |-> RInt(0), n |-> 0]

AgentIdle ==
    /\ ag = NewAgent(RandomStrategy)
    /\ last = NoAgentCall
    /\ chooses = 0
    /\ aprime = 0
    /\ rejected = FALSE

\* Simulation.run before it is called.
NoRun ==
    [pc |-> "idle", trials |-> 0, steps |-> 0, it |-> 0, agent |-> 0,
     trial |-> 0, step |-> 0, choice |-> None, reward |-> RInt(0),
     err |-> "none"]

NoFirst ==
    [done |-> FALSE, pc |-> "idle", log |-> <<>>, stats |-> <<>>]

SimIdle ==
    /\ sim = [state |-> "new", err |-> "none", source |-> "agents_list",
              consumed |-> FALSE, rng |-> 1]
    /\ agents = <<>>
    /\ bandit = NewBandit(<<>>, 1)
    /\ rngs = [i \in 1..2 |-> [seed |-> 0, pos |-> 0]]
    /\ run = NoRun
    /\ agent_stats = <<>>
    /\ sim_stats = <<>>
    /\ log = <<>>
    /\ first = NoFirst
    /\ heap = NoHeap

\* A call on a Bandit or an AgentStats: op, its outcome err, its arguments
\* arg and the value returned ret.
UnitCall(op, err, arg, ret) ==
    [op |-> op, err |-> err, arg |-> arg, ret |-> ret]

UnitIdle ==
    /\ blast = UnitCall("none", "none", <<>>, <<>>)
    /\ stlast = UnitCall("none", "none", <<>>, <<>>)

\* ------------------------------------------- strategy-level specification
\* A strategy object driven directly: prime, choose and update in any order.
StrategyPrimed(s) ==
    StrategyK(s) > 0

InitStrategy ==
    /\ st \in StrategyConfigs
    /\ slast = NoCall
    /\ supd = <<>>
    /\ sarg = NoArgs
    /\ sdraw = <<>>
    /\ sprime = PrimeArgs(0, 0)
    /\ twin = NoTwin
    /\ AgentIdle
    /\ SimIdle
    /\ UnitIdle

SPrime(k, steps) ==
    /\ st' = StrategyPrime(st, k, steps)
    /\ slast' = StratCall("prime", "none", None, k, steps, Sum0(StrategyNs(st)))
    /\ supd' = <<>>
    /\ sarg' = NoArgs
    /\ UNCHANGED <<sdraw, sprime, twin, agentVars, simVars, unitVars>>

\* choose on a strategy that was never primed reads an unassigned attribute.
SChoose ==
    /\ IF ~StrategyPrimed(st)
       THEN /\ slast' = StratCall("choose", "AttributeError", None, None, None, 0)
            /\ st' = st
       ELSE IF StrategyChooseRaises(st)
       THEN /\ slast' = StratCall("choose", "ValueError", None, None, None,
                                   Sum0(StrategyNs(st)))
            /\ st' = st
       ELSE \E d \in [1..ChooseDraws(st) -> Draws] :
               /\ slast' = StratCall("choose", "none", StrategyChoose(st, d), None,
                                      None, Sum0(StrategyNs(st)))
               /\ st' = st
    /\ sarg' = NoArgs
    /\ UNCHANGED <<supd, sdraw, sprime, twin, agentVars, simVars, unitVars>>

SUpdate(choice, reward, hasRng) ==
    /\ StrategyPrimed(st)
    /\ choice < StrategyK(st)
    /\ Sum0(StrategyNs(st)) < MaxUpdates
    /\ \E d \in [1..UpdateDraws(st, reward) -> Draws] :
          LET u == StrategyUpdate(st, choice, reward, hasRng, d)
          IN  /\ st' = u.strategy
              /\ slast' = StratCall("update", u.err, None, choice, None,
                                     Sum0(StrategyNs(st)))
              /\ supd' = IF u.err = "none"
                         THEN Append(supd, <<choice, reward>>)
                         ELSE supd
              /\ sarg' = UpdateArgs(reward, hasRng,
                                    StrategyUpdateCheck(st, reward, hasRng))
    /\ UNCHANGED <<sdraw, sprime, twin, agentVars, simVars, unitVars>>

NextStrategy ==
    \/ \E k \in 1..MaxK, steps \in 0..MaxSteps : SPrime(k, steps)
    \/ SChoose
    \/ \E c \in 0..(MaxK - 1), r \in Rewards, h \in BOOLEAN : SUpdate(c, r, h)

SpecStrategy ==
    InitStrategy /\ [][NextStrategy]_vars

\* ------------------------------------------------------ twin specification
\* A RandomStrategy and an EpsilonGreedyStrategy(eps = 1) given the same calls:
\* the same prime arguments, the same raw draws at each choose, the same
\* choice and reward at each update.
InitTwin ==
    /\ st = RandomStrategy
    /\ twin = [st |-> EpsilonGreedyStrategy(RInt(1)), last |-> NoCall]
    /\ slast = NoCall
    /\ supd = <<>>
    /\ sarg = NoArgs
    /\ sdraw = <<>>
    /\ sprime = PrimeArgs(0, 0)
    /\ AgentIdle
    /\ SimIdle
    /\ UnitIdle

TwinPrime(k, steps) ==
    /\ st' = StrategyPrime(st, k, steps)
    /\ slast' = StratCall("prime", "none", None, k, steps, Sum0(StrategyNs(st)))
    /\ twin' = [st   |-> StrategyPrime(twin.st, k, steps),
                last |-> StratCall("prime", "none", None, k, steps,
                                   Sum0(StrategyNs(twin.st)))]
    /\ supd' = <<>>
    /\ sarg' = NoArgs
    /\ sdraw' = <<>>
    /\ sprime' = PrimeArgs(k, steps)
    /\ UNCHANGED <<agentVars, simVars, unitVars>>

TwinChoose ==
    /\ StrategyPrimed(st)
    /\ \E d \in [1..ChooseDraws(st) -> Draws] :
          /\ slast' = StratCall("choose", "none", StrategyChoose(st, d), None,
                                 None, Sum0(StrategyNs(st)))
          /\ twin' = [twin EXCEPT !.last =
                          StratCall("choose", "none", StrategyChoose(twin.st, d),
                                    None, None, Sum0(StrategyNs(twin.st)))]
          /\ sdraw' = d
    /\ sarg' = NoArgs
    /\ UNCHANGED <<st, supd, sprime, agentVars, simVars, unitVars>>

TwinUpdate(choice, reward) ==
    /\ StrategyPrimed(st)
    /\ choice < StrategyK(st)
    /\ Len(supd) < MaxUpdates
    /\ LET u == StrategyUpdate(st, choice, reward, TRUE, <<>>)
           v == StrategyUpdate(twin.st, choice, reward, TRUE, <<>>)
       IN  /\ st' = u.strategy
           /\ slast' = StratCall("update", u.err, None, choice, None,
                                  Sum0(StrategyNs(st)))
           /\ twin' = [st   |-> v.strategy,
                       last |-> StratCall("update", v.err, None, choice, None,
                                          Sum0(StrategyNs(twin.st)))]
    /\ supd' = Append(supd, <<choice, reward>>)
    /\ sarg' = UpdateArgs(reward, TRUE, "none")
    /\ sdraw' = <<>>
    /\ UNCHANGED <<sprime, agentVars, simVars, unitVars>>

NextTwin ==
    \/ \E k \in 1..MaxK, steps \in 0..MaxSteps : TwinPrime(k, steps)
    \/ TwinChoose
    \/ \E c \in 0..(MaxK - 1), r \in Rewards : TwinUpdate(c, r)

SpecTwin ==
    InitTwin /\ [][NextTwin]_vars

\* ----------------------------------------------- semi-uniform specification
\* A semi-uniform strategy driven directly, every call traced: the arguments
\* of the most recent prime, the updates since, and the raw draws of a choose.
SemiUniformConfigs ==
    {s \in StrategyConfigs : IsSemiUniform(s)}

InitSemiUniform ==
    /\ st \in SemiUniformConfigs
    /\ slast = NoCall
    /\ supd = <<>>
    /\ sarg = NoArgs
    /\ sdraw = <<>>
    /\ sprime = PrimeArgs(0, 0)
    /\ twin = NoTwin
    /\ AgentIdle
    /\ SimIdle
    /\ UnitIdle

SemiPrime(k, steps) ==
    /\ st' = StrategyPrime(st, k, steps)
    /\ slast' = StratCall("prime", "none", None, k, steps, Sum0(StrategyNs(st)))
    /\ supd' = <<>>
    /\ sarg' = NoArgs
    /\ sdraw' = <<>>
    /\ sprime' = PrimeArgs(k, steps)
    /\ UNCHANGED <<twin, agentVars, simVars, unitVars>>

SemiChoose ==
    /\ StrategyPrimed(st)
    /\ \E d \in [1..ChooseDraws(st) -> Draws] :
          /\ slast' = StratCall("choose", "none", StrategyChoose(st, d), None,
                                 None, Sum0(StrategyNs(st)))
          /\ sdraw' = d
    /\ sarg' = NoArgs
    /\ UNCHANGED <<st, supd, sprime, twin, agentVars, simVars, unitVars>>

SemiUpdate(choice, reward) ==
    /\ StrategyPrimed(st)
    /\ choice < StrategyK(st)
    /\ Len(supd) < MaxUpdates
    /\ LET u == StrategyUpdate(st, choice, reward, TRUE, <<>>)
       IN  /\ st' = u.strategy
           /\ slast' = StratCall("update", u.err, None, choice, None,
                                  Sum0(StrategyNs(st)))
    /\ supd' = Append(supd, <<choice, reward>>)
    /\ sarg' = UpdateArgs(reward, TRUE, "none")
    /\ sdraw' = <<>>
    /\ UNCHANGED <<sprime, twin, agentVars, simVars, unitVars>>

NextSemiUniform ==
    \/ \E k \in 1..MaxK, steps \in 0..MaxSteps : SemiPrime(k, steps)
    \/ SemiChoose
    \/ \E c \in 0..(MaxK - 1), r \in Rewards : SemiUpdate(c, r)

SpecSemiUniform ==
    InitSemiUniform /\ [][NextSemiUniform]_vars

\* ---------------------------------------------- agent-level specification
\* One Agent driven by an arbitrary caller: prime, choose, update, Qs and Ns
\* in any order, the generator yielding arbitrary draws.
InitAgent ==
    /\ \E s \in StrategyConfigs : ag = NewAgent(s)
    /\ last = NoAgentCall
    /\ chooses = 0
    /\ aprime = 0
    /\ rejected = FALSE
    /\ StratIdle
    /\ SimIdle
    /\ UnitIdle

APrime(k, steps) ==
    /\ ag' = AgentPrime(ag, k, steps, 1)
    /\ last' = [op |-> "prime", err |-> "none", called |-> TRUE, passed |-> None,
                reward |-> RInt(0), n |-> chooses]
    /\ chooses' = 0
    /\ aprime' = k
    /\ rejected' = FALSE
    /\ UNCHANGED <<stratVars, simVars, unitVars>>

AChoose ==
    /\ chooses < MaxChooses
    /\ \E d \in [1..AgentChooseDraws(ag) -> Draws] :
          LET res == AgentChoose(ag, d)
          IN  /\ ag' = res.agent
              /\ last' = AgentCall("choose", res, RInt(0), chooses)
              /\ chooses' = IF res.err = "none" THEN chooses + 1 ELSE chooses
              /\ rejected' = IF res.err = "none" THEN FALSE ELSE rejected
    /\ UNCHANGED <<aprime, stratVars, simVars, unitVars>>

AUpdate(reward) ==
    /\ ag.primed => Sum0(StrategyNs(ag.strategy)) < MaxUpdates
    /\ \E d \in [1..AgentUpdateDraws(ag, reward) -> Draws] :
          LET res == AgentUpdate(ag, reward, d)
          IN  /\ ag' = res.agent
              /\ last' = AgentCall("update", res, reward, chooses)
              /\ chooses' = IF res.err = "none" THEN 0 ELSE chooses
              /\ rejected' = IF res.err = "StrategyUsageError" THEN TRUE ELSE rejected
    /\ UNCHANGED <<aprime, stratVars, simVars, unitVars>>

AReadQs ==
    /\ last' = AgentCall("Qs", AgentQs(ag), RInt(0), chooses)
    /\ UNCHANGED <<ag, chooses, aprime, rejected, stratVars, simVars, unitVars>>

AReadNs ==
    /\ last' = AgentCall("Ns", AgentNs(ag), RInt(0), chooses)
    /\ UNCHANGED <<ag, chooses, aprime, rejected, stratVars, simVars, unitVars>>

NextAgent ==
    \/ \E k \in 1..MaxK, steps \in 0..MaxSteps : APrime(k, steps)
    \/ AChoose
    \/ \E r \in Rewards : AUpdate(r)
    \/ AReadQs
    \/ AReadNs

SpecAgent ==
    InitAgent /\ [][NextAgent]_vars

\* ------------------------------------------------ simulation specification
\* A caller builds one Simulation and calls run once.  Every call that run
\* makes is one step and is appended to log.
Ev(op, agent, arm, reward, step, rng) ==
    [op |-> op, agent |-> agent, arm |-> arm, reward |-> reward, step |-> step,
     rng |-> rng]

\* The inputs of Simulation.__init__: the agents (or the strategies they are
\* built from), given as a list or as a one-shot iterator; the bandit, with
\* its own generator (identifier 2, seeded from entropy) or sharing the
\* generator handed to the Simulation (identifier 1).
InitSim ==
    /\ \E src \in {"agents_list", "agents_iter", "strategies", "none"} :
          sim = [state |-> "new", err |-> "none", source |-> src,
                 consumed |-> FALSE, rng |-> 1]
    /\ agents \in AgentLists
    /\ sim.source = "none" => agents = <<>>
    /\ \E arms \in ArmLists, id \in 1..2 : bandit = NewBandit(arms, id)
    /\ \E s1 \in Seeds, s2 \in Seeds :
          /\ bandit.rng = 1 => s2 = 0
          /\ rngs = [i \in 1..2 |-> [seed |-> IF i = 1 THEN s1 ELSE s2, pos |-> 0]]
    /\ run = NoRun
    /\ agent_stats = <<>>
    /\ sim_stats = <<>>
    /\ log = <<>>
    /\ first = NoFirst
    /\ heap = NoHeap
    /\ StratIdle
    /\ AgentIdle
    /\ UnitIdle

\* Mutant: the bandit's length is not looked at.
SimInitAnyBandit(n, empty, src) ==
    IF src = "none"
    THEN [state |-> "failed", err |-> "SimulationUsageError", source |-> src,
          consumed |-> FALSE, rng |-> 1]
    ELSE IF n = 0
    THEN [state |-> "failed", err |-> "ValueError", source |-> src,
          consumed |-> (src = "agents_iter"), rng |-> 1]
    ELSE [state |-> "ready", err |-> "none", source |-> src,
          consumed |-> (src = "agents_iter"), rng |-> 1]

\* Simulation.__init__ on n agents, a bandit that is empty or not, agents
\* given as src: len(list(self.agents)) exhausts a one-shot iterator; with
\* neither agents nor strategies (src "none") _create_agents raises.
SimInit(n, empty, src) ==
    IF src = "none"
    THEN [state |-> "failed", err |-> "SimulationUsageError", source |-> src,
          consumed |-> FALSE, rng |-> 1]
    ELSE IF n = 0 \/ empty
    THEN [state |-> "failed", err |-> "ValueError", source |-> src,
          consumed |-> (src = "agents_iter"), rng |-> 1]
    ELSE [state |-> "ready", err |-> "none", source |-> src,
          consumed |-> (src = "agents_iter"), rng |-> 1]

SimConstruct ==
    /\ sim.state = "new"
    /\ sim' = SimInit(Len(agents), BanditLen(bandit) = 0, sim.source)
    /\ UNCHANGED <<agents, bandit, rngs, run, agent_stats, sim_stats, log, first, heap>>
    /\ UNCHANGED <<stratVars, agentVars, unitVars>>

\* What `for agent in self.agents` yields: every agent of a list, the items
\* left in a one-shot iterator.
AgentsIter(sm, ags) ==
    IF sm.source = "agents_iter" /\ sm.consumed
    THEN <<>>
    ELSE [i \in 1..Len(ags) |-> i]

\* run(trials, steps): sim_stats = SimulationStats(simulation=self)
RunStart(trials, steps) ==
    /\ sim.state = "ready"
    /\ run.pc = "idle"
    /\ run' = [NoRun EXCEPT !.pc = "agents", !.trials = trials, !.steps = steps]
    /\ sim_stats' = <<>>
    /\ heap' = HeapNewDict(heap)
    /\ UNCHANGED <<sim, agents, bandit, rngs, agent_stats, log, first>>
    /\ UNCHANGED <<stratVars, agentVars, unitVars>>

\* for agent in self.agents: agent_stats = AgentStats(...); or return sim_stats
RunNextAgent ==
    /\ run.pc = "agents"
    /\ LET items == AgentsIter(sim, agents)
       IN  IF run.it < Len(items)
           THEN /\ run' = [run EXCEPT !.pc = "trials", !.it = @ + 1,
                                      !.agent = items[run.it + 1], !.trial = 0]
                /\ agent_stats' = NewAgentStats(items[run.it + 1], run.steps,
                                                AllMetrics)
           ELSE /\ run' = [run EXCEPT !.pc = "returned"]
                /\ UNCHANGED agent_stats
    /\ heap' = IF run.it < Len(AgentsIter(sim, agents))
               THEN HeapNewObj(heap, agent_stats')
               ELSE heap
    /\ UNCHANGED <<sim, agents, bandit, rngs, sim_stats, log, first>>
    /\ UNCHANGED <<stratVars, agentVars, unitVars>>

\* for _ in range(trials): agent.prime(len(self.bandit), steps, self._rng)
RunPrime ==
    /\ run.pc = "trials"
    /\ run.trial < run.trials
    /\ agents' = [agents EXCEPT ![run.agent] =
                     AgentPrime(@, BanditLen(bandit), run.steps, sim.rng)]
    /\ run' = [run EXCEPT !.trial = @ + 1, !.step = 0,
                          !.pc = IF run.steps > 0 THEN "choose" ELSE "trials"]
    /\ log' = Append(log, Ev("prime", run.agent, BanditLen(bandit), RInt(0),
                             run.steps, sim.rng))
    /\ UNCHANGED <<sim, bandit, rngs, agent_stats, sim_stats, first, heap>>
    /\ UNCHANGED <<stratVars, agentVars, unitVars>>

\* return agent_stats; sim_stats.add(agent_stats)
RunAddStats ==
    /\ run.pc = "trials"
    /\ run.trial >= run.trials
    /\ sim_stats' = SimulationStatsAdd(sim_stats, agent_stats)
    /\ run' = [run EXCEPT !.pc = "agents"]
    /\ heap' = HeapAdd(heap, agent_stats.agent)
    /\ UNCHANGED <<sim, agents, bandit, rngs, agent_stats, log, first>>
    /\ UNCHANGED <<stratVars, agentVars, unitVars>>

\* choice = agent.choose()
RunChoose ==
    /\ run.pc = "choose"
    /\ LET a   == agents[run.agent]
           n   == AgentChooseDraws(a)
           res == AgentChoose(a, Take(rngs[a.rng], n))
       IN  /\ agents' = [agents EXCEPT ![run.agent] = res.agent]
           /\ rngs' = [rngs EXCEPT ![a.rng] = Advance(@, n)]
           /\ run' = [run EXCEPT !.choice = res.ret, !.err = res.err,
                                 !.pc = IF res.err = "none" THEN "play"
                                                            ELSE "raised"]
           /\ log' = Append(log, Ev("choose", run.agent, res.ret, RInt(0),
                                    run.step, a.rng))
    /\ UNCHANGED <<sim, bandit, agent_stats, sim_stats, first, heap>>
    /\ UNCHANGED <<stratVars, agentVars, unitVars>>

\* Mutant: the arm played is not the one chosen.
RunPlayOtherArm ==
    /\ run.pc = "play"
    /\ LET id     == BanditPlayRng(bandit)
           arm    == (run.choice + 1) % BanditLen(bandit)
           reward == BanditPlay(bandit, arm, Take(rngs[id], 1))
       IN  /\ rngs' = [rngs EXCEPT ![id] = Advance(@, 1)]
           /\ run' = [run EXCEPT !.reward = reward, !.pc = "update"]
           /\ log' = Append(log, Ev("play", run.agent, arm, reward,
                                    run.step, id))
    /\ UNCHANGED <<sim, agents, bandit, agent_stats, sim_stats, first, heap>>
    /\ UNCHANGED <<stratVars, agentVars, unitVars>>

\* reward = self.bandit.play(choice)
RunPlay ==
    /\ run.pc = "play"
    /\ LET id     == BanditPlayRng(bandit)
           reward == BanditPlay(bandit, run.choice, Take(rngs[id], 1))
       IN  /\ rngs' = [rngs EXCEPT ![id] = Advance(@, 1)]
           /\ run' = [run EXCEPT !.reward = reward, !.pc = "update"]
           /\ log' = Append(log, Ev("play", run.agent, run.choice, reward,
                                    run.step, id))
    /\ UNCHANGED <<sim, agents, bandit, agent_stats, sim_stats, first, heap>>
    /\ UNCHANGED <<stratVars, agentVars, unitVars>>

\* agent.update(reward); an error raised by the agent or its strategy ends run.
RunUpdate ==
    /\ run.pc = "update"
    /\ LET a   == agents[run.agent]
           n   == AgentUpdateDraws(a, run.reward)
           res == AgentUpdate(a, run.reward, Take(rngs[a.rng], n))
       IN  /\ agents' = [agents EXCEPT ![run.agent] = res.agent]
           /\ rngs' = [rngs EXCEPT ![a.rng] = Advance(@, n)]
           /\ run' = [run EXCEPT !.err = res.err,
                                 !.pc = IF res.err = "none" THEN "stats"
                                                            ELSE "raised"]
           /\ log' = Append(log, Ev("update", run.agent, res.passed, run.reward,
                                    run.step, a.rng))
    /\ UNCHANGED <<sim, bandit, agent_stats, sim_stats, first, heap>>
    /\ UNCHANGED <<stratVars, agentVars, unitVars>>

\* Mutant: the step loop is left after its first iteration.
RunStatsUpdateBreaks ==
    /\ run.pc = "stats"
    /\ agent_stats' = AgentStatsUpdate(agent_stats, bandit, run.step, run.choice,
                                       run.reward)
    /\ run' = [run EXCEPT !.step = @ + 1, !.pc = "trials"]
    /\ log' = Append(log, Ev("stats", run.agent, run.choice, run.reward,
                             run.step, NoRng))
    /\ heap' = HeapWrite(heap, agent_stats')
    /\ UNCHANGED <<sim, agents, bandit, rngs, sim_stats, first>>
    /\ UNCHANGED <<stratVars, agentVars, unitVars>>

\* agent_stats.update(step, choice, reward); next step or next trial
RunStatsUpdate ==
    /\ run.pc = "stats"
    /\ agent_stats' = AgentStatsUpdate(agent_stats, bandit, run.step, run.choice,
                                       run.reward)
    /\ run' = [run EXCEPT !.step = @ + 1,
                          !.pc = IF run.step + 1 < run.steps THEN "choose"
                                                             ELSE "trials"]
    /\ log' = Append(log, Ev("stats", run.agent, run.choice, run.reward,
                             run.step, NoRng))
    /\ heap' = HeapWrite(heap, agent_stats')
    /\ UNCHANGED <<sim, agents, bandit, rngs, sim_stats, first>>
    /\ UNCHANGED <<stratVars, agentVars, unitVars>>

Next ==
    \/ SimConstruct
    \/ \E trials \in 0..MaxTrials, steps \in 0..MaxSteps : RunStart(trials, steps)
    \/ RunNextAgent
    \/ RunPrime
    \/ RunAddStats
    \/ RunChoose
    \/ RunPlay
    \/ RunUpdate
    \/ RunStatsUpdate

Spec ==
    InitSim /\ [][Next]_vars

\* run is sequential code: whatever statement is next is executed.
SpecFair ==
    Spec /\ WF_vars(Next)

\* ------------------------------------------- reproducibility specification
\* A caller builds a Simulation with a seed and a Bandit of its own, runs it,
\* then builds a second Simulation with the same seed, the same agents and a
\* new Bandit with the same arms, and runs it with the same arguments.
InitDet ==
    /\ sim = [state |-> "new", err |-> "none", source |-> "agents_list",
              consumed |-> FALSE, rng |-> 1]
    /\ agents \in {l \in AgentLists : Len(l) > 0}
    /\ \E arms \in {l \in ArmLists : Len0(l) > 0} : bandit = NewBandit(arms, 2)
    /\ \E s1 \in Seeds, s2 \in Seeds :
          rngs = [i \in 1..2 |-> [seed |-> IF i = 1 THEN s1 ELSE s2, pos |-> 0]]
    /\ run = NoRun
    /\ agent_stats = <<>>
    /\ sim_stats = <<>>
    /\ log = <<>>
    /\ first = NoFirst
    /\ heap = NoHeap
    /\ StratIdle
    /\ AgentIdle
    /\ UnitIdle

\* Bandit(arms) seeds its generator from entropy (any seed); Simulation(bandit,
\* agents, seed=...) seeds its own from the seed given; run(trials, steps).
Rebuild ==
    /\ run.pc \in {"returned", "raised"}
    /\ ~first.done
    /\ first' = [done |-> TRUE, pc |-> run.pc, log |-> log, stats |-> sim_stats]
    /\ \E s2 \in Seeds :
          rngs' = [i \in 1..2 |->
                     [seed |-> IF i = 1 THEN rngs[1].seed ELSE s2, pos |-> 0]]
    /\ sim' = SimInit(Len(agents), BanditLen(bandit) = 0, sim.source)
    /\ run' = [NoRun EXCEPT !.pc = "agents", !.trials = run.trials,
                            !.steps = run.steps]
    /\ agent_stats' = <<>>
    /\ sim_stats' = <<>>
    /\ log' = <<>>
    /\ heap' = NoHeap
    /\ UNCHANGED <<agents, bandit>>
    /\ UNCHANGED <<stratVars, agentVars, unitVars>>

NextDet ==
    \/ SimConstruct
    \/ \E trials \in 0..MaxTrials, steps \in 0..MaxSteps : RunStart(trials, steps)
    \/ RunNextAgent
    \/ RunPrime
    \/ RunAddStats
    \/ RunChoose
    \/ RunPlay
    \/ RunUpdate
    \/ RunStatsUpdate
    \/ Rebuild

SpecDet ==
    InitDet /\ [][NextDet]_vars

\* ------------------------------------------------ two runs of one Simulation
\* The Simulation is built once and run is called twice on it; the caller
\* keeps the SimulationStats the first call returned.
InitRerun ==
    /\ \E src \in {"agents_list", "strategies"} :
          sim = [state |-> "new", err |-> "none", source |-> src,
                 consumed |-> FALSE, rng |-> 1]
    /\ agents \in {l \in AgentLists : Len(l) > 0}
    /\ \E arms \in {l \in ArmLists : Len0(l) > 0} : bandit = NewBandit(arms, 2)
    /\ \E s1 \in Seeds, s2 \in Seeds :
          rngs = [i \in 1..2 |-> [seed |-> IF i = 1 THEN s1 ELSE s2, pos |-> 0]]
    /\ run = NoRun
    /\ agent_stats = <<>>
    /\ sim_stats = <<>>
    /\ log = <<>>
    /\ first = NoFirst
    /\ heap = NoHeap
    /\ StratIdle
    /\ AgentIdle
    /\ UnitIdle

\* The first call has returned its sim_stats; run(trials, steps) is called
\* again: sim_stats = SimulationStats(simulation=self).
RunAgain(trials, steps) ==
    /\ run.pc = "returned"
    /\ ~first.done
    /\ first' = [done |-> TRUE, pc |-> run.pc, log |-> log, stats |-> sim_stats]
    /\ heap' = HeapNewDict([heap EXCEPT !.retd = heap.curd, !.cur = 0])
    /\ run' = [NoRun EXCEPT !.pc = "agents", !.trials = trials, !.steps = steps]
    /\ agent_stats' = <<>>
    /\ sim_stats' = <<>>
    /\ log' = <<>>
    /\ UNCHANGED <<sim, agents, bandit, rngs>>
    /\ UNCHANGED <<stratVars, agentVars, unitVars>>

NextRerun ==
    \/ SimConstruct
    \/ \E trials \in 0..MaxTrials, steps \in 0..MaxSteps : RunStart(trials, steps)
    \/ RunNextAgent
    \/ RunPrime
    \/ RunAddStats
    \/ RunChoose
    \/ RunPlay
    \/ RunUpdate
    \/ RunStatsUpdate
    \/ \E trials \in 0..MaxTrials, steps \in 0..MaxSteps : RunAgain(trials, steps)

SpecRerun ==
    InitRerun /\ [][NextRerun]_vars

\* --------------------------------------------- bandit-level specification
\* A Bandit driven directly: best_arm, is_opt and regret in any order.
ArmPool ==
    {BernoulliArm(Rat(1, 2)), BernoulliArm(RInt(1)),
     GaussianArm(Rat(-1, 2), RInt(1)), GaussianArm(RInt(1), RInt(0))}

\* Bandit(arms): any list of at most MaxArms arms; the constructor checks
\* nothing, so the list may be empty.
BanditArms ==
    UNION {{Arr(seq) : seq \in [1..n -> ArmPool]} : n \in 0..MaxArms}

InitBandit ==
    /\ bandit \in {NewBandit(arms, 2) : arms \in BanditArms}
    /\ blast = UnitCall("none", "none", <<>>, <<>>)
    /\ stlast = UnitCall("none", "none", <<>>, <<>>)
    /\ sim = [state |-> "new", err |-> "none", source |-> "agents_list",
              consumed |-> FALSE, rng |-> 1]
    /\ agents = <<>>
    /\ rngs = [i \in 1..2 |-> [seed |-> 0, pos |-> 0]]
    /\ run = NoRun
    /\ agent_stats = <<>>
    /\ sim_stats = <<>>
    /\ log = <<>>
    /\ first = NoFirst
    /\ heap = NoHeap
    /\ StratIdle
    /\ AgentIdle

\* best_arm(): np.max of an empty array raises ValueError.
BBestArm ==
    /\ IF BanditLen(bandit) = 0
       THEN blast' = UnitCall("best_arm", "ValueError", <<>>, <<>>)
       ELSE \E r \in Draws :
               blast' = UnitCall("best_arm", "none", <<>>, BanditBestArm(bandit, r))
    /\ UNCHANGED <<stlast, stratVars, agentVars, simVars>>

\* The outcome of np.max(self.means) followed by self._arms[choice]: the
\* maximum of no means is a ValueError, a bad index an IndexError.
BanditMaxThenIndex(b, choice) ==
    IF BanditLen(b) = 0 THEN "ValueError"
    ELSE IF BanditIndexError(b, choice) THEN "IndexError"
    ELSE "none"

BIsOpt(choice) ==
    /\ LET err == BanditMaxThenIndex(bandit, choice)
       IN  blast' = UnitCall("is_opt", err, choice,
                             IF err = "none" THEN BanditIsOpt(bandit, choice)
                                             ELSE <<>>)
    /\ UNCHANGED <<stlast, stratVars, agentVars, simVars>>

BRegret(choice) ==
    /\ LET err == BanditMaxThenIndex(bandit, choice)
       IN  blast' = UnitCall("regret", err, choice,
                             IF err = "none" THEN BanditRegret(bandit, choice)
                                             ELSE <<>>)
    /\ UNCHANGED <<stlast, stratVars, agentVars, simVars>>

BGetItem(i) ==
    /\ blast' = IF BanditIndexError(bandit, i)
                THEN UnitCall("getitem", "IndexError", i, <<>>)
                ELSE UnitCall("getitem", "none", i, BanditGetItem(bandit, i))
    /\ UNCHANGED <<stlast, stratVars, agentVars, simVars>>

\* play(i): self[i].play(self._rng)
BPlay(i) ==
    /\ IF BanditIndexError(bandit, i)
       THEN blast' = UnitCall("play", "IndexError", i, <<>>)
       ELSE \E r \in Draws :
               blast' = UnitCall("play", "none", i, BanditPlay(bandit, i, <<r>>))
    /\ UNCHANGED <<stlast, stratVars, agentVars, simVars>>

\* The indices offered to a Bandit: those of its arms and some on either side.
Indices ==
    (-(MaxArms + 1))..MaxArms

NextBandit ==
    \/ BBestArm
    \/ \E c \in Indices : BIsOpt(c)
    \/ \E c \in Indices : BRegret(c)
    \/ \E i \in Indices : BGetItem(i)
    \/ \E i \in Indices : BPlay(i)

SpecBandit ==
    InitBandit /\ [][NextBandit]_vars

\* ---------------------------------------------- construction specification
\* The constructors called directly, with parameters inside and outside
\* their domains: arms, strategies, Bandit(arms) and the factory Arm.bandit.
\* They read and keep nothing but their arguments, so a behaviour is one call.
Built(obj) ==
    [err |-> "none", obj |-> obj]

NotBuilt(err) ==
    [err |-> err, obj |-> <<>>]

\* Mutant: only a negative p is refused.
BernoulliArmInitLax(p) ==
    IF RLt(p, RInt(0)) THEN NotBuilt("ValueError") ELSE Built(BernoulliArm(p))

\* BernoulliArm.__init__(p)
BernoulliArmInit(p) ==
    IF RLt(p, RInt(0)) \/ RLt(RInt(1), p)
    THEN NotBuilt("ValueError")
    ELSE Built(BernoulliArm(p))

\* GaussianArm.__init__(loc, scale)
GaussianArmInit(loc, scale) ==
    IF RLt(scale, RInt(0))
    THEN NotBuilt("ValueError")
    ELSE Built(GaussianArm(loc, scale))

\* EpsilonGreedyStrategy.__init__(eps)
EpsilonGreedyInit(eps) ==
    IF RLt(eps, RInt(0)) \/ RLt(RInt(1), eps)
    THEN NotBuilt("ValueError")
    ELSE Built(EpsilonGreedyStrategy(eps))

\* EpsilonFirstStrategy.__init__(eps)
EpsilonFirstInit(eps) ==
    IF RLt(eps, RInt(0)) \/ RLt(RInt(1), eps)
    THEN NotBuilt("ValueError")
    ELSE Built(EpsilonFirstStrategy(eps))

\* UCB1Strategy.__init__(alpha)
UCB1Init(alpha) ==
    IF RLt(alpha, RInt(0))
    THEN NotBuilt("ValueError")
    ELSE Built(UCB1Strategy(alpha))

\* The parameter names of an arm class.
ArmParams(kind) ==
    IF kind = "bernoulli" THEN {"p"} ELSE {"loc", "scale"}

\* cls(**params): a missing keyword is a TypeError, a value outside its
\* domain a ValueError.
ArmInit(kind, params) ==
    IF DOMAIN params # ArmParams(kind) THEN NotBuilt("TypeError")
    ELSE IF kind = "bernoulli" THEN BernoulliArmInit(params.p)
    ELSE GaussianArmInit(params.loc, params.scale)

\* zip(*kwargs.values()): as many tuples as the shortest list has values,
\* none when there is no list.
ZipLen(lists) ==
    IF DOMAIN lists = {} THEN 0
    ELSE CHOOSE n \in {Len(lists[x]) : x \in DOMAIN lists} :
            \A x \in DOMAIN lists : n <= Len(lists[x])

\* Mutant: the arm list is handed to Bandit without looking at its length.
ArmBanditUnchecked(kind, lists) ==
    LET n    == ZipLen(lists)
        arms == [j \in 1..n |-> ArmInit(kind, [x \in DOMAIN lists |-> lists[x][j]])]
        bad  == {j \in 1..n : arms[j].err # "none"}
    IN  IF bad # {}
        THEN NotBuilt(arms[CHOOSE j \in bad : \A i \in bad : j <= i].err)
        ELSE Built(NewBandit(Arr([j \in 1..n |-> arms[j].obj]), 2))

\* Arm.bandit(**kwargs): one parameter dict per zipped tuple, an error when
\* there is none, else the arms built in order and handed to Bandit.
ArmBandit(kind, lists) ==
    LET n    == ZipLen(lists)
        arms == [j \in 1..n |-> ArmInit(kind, [x \in DOMAIN lists |-> lists[x][j]])]
        bad  == {j \in 1..n : arms[j].err # "none"}
    IN  IF n = 0 THEN NotBuilt("ValueError")
        ELSE IF bad # {}
        THEN NotBuilt(arms[CHOOSE j \in bad : \A i \in bad : j <= i].err)
        ELSE Built(NewBandit(Arr([j \in 1..n |-> arms[j].obj]), 2))

\* The parameter values tried: below, at and above the bounds 0 and 1.
Params ==
    {Rat(-1, 2), RInt(0), Rat(1, 2), RInt(1), Rat(3, 2)}

ParamLists ==
    UNION {[1..n -> Params] : n \in 0..MaxParams}

\* The keyword arguments of Arm.bandit: a list for some of the parameters.
Kwargs(kind) ==
    UNION {[names -> ParamLists] : names \in SUBSET ArmParams(kind)}

InitBuild ==
    /\ StratIdle
    /\ AgentIdle
    /\ SimIdle
    /\ UnitIdle

NothingBuilt ==
    blast.op = "none"

BuildArm(kind, params) ==
    /\ NothingBuilt
    /\ LET r == ArmInit(kind, params)
       IN  blast' = UnitCall(kind, r.err, params, r.obj)
    /\ UNCHANGED <<stlast, stratVars, agentVars, simVars>>

BuildStrategy(kind, param) ==
    /\ NothingBuilt
    /\ LET r == CASE kind = "epsgreedy" -> EpsilonGreedyInit(param)
                   [] kind = "epsfirst"  -> EpsilonFirstInit(param)
                   [] kind = "ucb1"      -> UCB1Init(param)
       IN  blast' = UnitCall(kind, r.err, param, r.obj)
    /\ UNCHANGED <<stlast, stratVars, agentVars, simVars>>

\* Bandit(arms): the list is stored as it is.
BuildBandit(arms) ==
    /\ NothingBuilt
    /\ blast' = UnitCall("Bandit", "none", arms, NewBandit(arms, 2))
    /\ UNCHANGED <<stlast, stratVars, agentVars, simVars>>

BuildArmBandit(kind, lists) ==
    /\ NothingBuilt
    /\ LET r == ArmBandit(kind, lists)
       IN  blast' = UnitCall("Arm.bandit", r.err,
                             [kind |-> kind, lists |-> lists], r.obj)
    /\ UNCHANGED <<stlast, stratVars, agentVars, simVars>>

NextBuild ==
    \/ \E p \in Params : BuildArm("bernoulli", [p |-> p])
    \/ \E loc \in Params, scale \in Params :
          BuildArm("gaussian", [loc |-> loc, scale |-> scale])
    \/ \E kind \in {"epsgreedy", "epsfirst", "ucb1"}, x \in Params :
          BuildStrategy(kind, x)
    \/ \E arms \in BanditArms : BuildBandit(arms)
    \/ \E kind \in {"bernoulli", "gaussian"} :
          \E lists \in Kwargs(kind) : BuildArmBandit(kind, lists)

SpecBuild ==
    InitBuild /\ [][NextBuild]_vars

\* ----------------------------------------- statistics-level specification
\* One AgentStats driven directly: construction, then update and reads of
\* its metrics in any order.
StatsBuilt ==
    DOMAIN agent_stats # {}

InitStats ==
    /\ \E arms \in {l \in ArmLists : Len0(l) > 0} : bandit = NewBandit(arms, 2)
    /\ agent_stats = <<>>
    /\ blast = UnitCall("none", "none", <<>>, <<>>)
    /\ stlast = UnitCall("none", "none", <<>>, <<>>)
    /\ sim = [state |-> "new", err |-> "none", source |-> "agents_list",
              consumed |-> FALSE, rng |-> 1]
    /\ agents = <<>>
    /\ rngs = [i \in 1..2 |-> [seed |-> 0, pos |-> 0]]
    /\ run = NoRun
    /\ sim_stats = <<>>
    /\ log = <<>>
    /\ first = NoFirst
    /\ heap = NoHeap
    /\ StratIdle
    /\ AgentIdle

\* AgentStats(agent, bandit, steps, metrics): `given` tells a metrics
\* argument from the default None.
StNew(steps, given, metrics) ==
    /\ ~StatsBuilt
    /\ agent_stats' = NewAgentStats(1, steps, MetricsOrAll(given, metrics))
    /\ stlast' = UnitCall("new", "none",
                          [steps |-> steps, given |-> given, metrics |-> metrics],
                          <<>>)
    /\ UNCHANGED <<sim, agents, bandit, rngs, run, sim_stats, log, first, heap>>
    /\ UNCHANGED <<blast, stratVars, agentVars>>

StUpdate(step, choice, reward) ==
    /\ StatsBuilt
    /\ step < agent_stats.steps
    /\ choice < BanditLen(bandit)
    /\ Sum0(agent_stats.counts) < MaxStatsUpdates
    /\ agent_stats' = AgentStatsUpdate(agent_stats, bandit, step, choice, reward)
    /\ stlast' = UnitCall("update", "none",
                          [step |-> step, choice |-> choice, reward |-> reward],
                          <<>>)
    /\ UNCHANGED <<sim, agents, bandit, rngs, run, sim_stats, log, first, heap>>
    /\ UNCHANGED <<blast, stratVars, agentVars>>

\* Mutant: the read divides the stored sums in place (where the count is
\* positive) instead of building a new array.
StGetInPlace(metric) ==
    /\ StatsBuilt
    /\ LET r == AgentStatsGet(agent_stats, metric)
           b == MetricBase(metric)
       IN  /\ stlast' = UnitCall("get", r.err, metric, r.ret)
           /\ agent_stats' =
                 IF r.err # "none" THEN agent_stats
                 ELSE [agent_stats EXCEPT !.stats[b] =
                          [i \in DOMAIN @ |->
                             IF agent_stats.counts[i] > 0
                             THEN RDivInt(@[i], agent_stats.counts[i])
                             ELSE @[i]]]
    /\ UNCHANGED <<sim, agents, bandit, rngs, run, sim_stats, log, first, heap>>
    /\ UNCHANGED <<blast, stratVars, agentVars>>

StGet(metric) ==
    /\ StatsBuilt
    /\ LET r == AgentStatsGet(agent_stats, metric)
       IN  stlast' = UnitCall("get", r.err, metric, r.ret)
    /\ UNCHANGED <<blast, stratVars, agentVars, simVars>>

NextStats ==
    \/ \E steps \in 0..MaxSteps, metrics \in SUBSET AllMetrics :
          StNew(steps, TRUE, metrics)
    \/ \E steps \in 0..MaxSteps : StNew(steps, FALSE, {})
    \/ \E step \in 0..(MaxSteps - 1), c \in 0..(MaxK - 1), r \in Rewards :
          StUpdate(step, c, r)
    \/ \E m \in AllMetrics : StGet(m)

SpecStats ==
    InitStats /\ [][NextStats]_vars

\* --------------------------------------------- metric-level specification
\* The Metric enum used directly: is_base, base and map_to_base on any
\* metric or list of metrics (repetitions allowed).
MetricLists ==
    UNION {[1..n -> AllMetrics] : n \in 0..MaxMetrics}

InitMetric ==
    /\ StratIdle
    /\ AgentIdle
    /\ SimIdle
    /\ UnitIdle

MIsBase(m) ==
    /\ stlast' = UnitCall("is_base", "none", m, MetricIsBase(m))
    /\ UNCHANGED <<blast, stratVars, agentVars, simVars>>

MBase(m) ==
    /\ stlast' = UnitCall("base", "none", m, MetricBase(m))
    /\ UNCHANGED <<blast, stratVars, agentVars, simVars>>

MMapToBase(metrics) ==
    /\ stlast' = UnitCall("map_to_base", "none", metrics,
                          MapToBase({metrics[i] : i \in DOMAIN metrics}))
    /\ UNCHANGED <<blast, stratVars, agentVars, simVars>>

NextMetric ==
    \/ \E m \in AllMetrics : MIsBase(m)
    \/ \E m \in AllMetrics : MBase(m)
    \/ \E metrics \in MetricLists : MMapToBase(metrics)

SpecMetric ==
    InitMetric /\ [][NextMetric]_vars

\* --------------------------------- simulation-statistics specification
\* A SimulationStats used directly: add, item assignment, item access and
\* membership, with AgentStats of any of the agents.
AgentStatsValues ==
    {NewAgentStats(a, steps, AllMetrics) : a \in 1..MaxAgents, steps \in 0..MaxSteps}

InitSimStats ==
    /\ StratIdle
    /\ AgentIdle
    /\ SimIdle
    /\ UnitIdle

SSAdd(as) ==
    /\ sim_stats' = SimulationStatsAdd(sim_stats, as)
    /\ stlast' = UnitCall("add", "none", [agent |-> as.agent, stats |-> as], <<>>)
    /\ UNCHANGED <<sim, agents, bandit, rngs, run, agent_stats, log, first, heap>>
    /\ UNCHANGED <<blast, stratVars, agentVars>>

SSSetItem(agent, as) ==
    /\ LET r == SimulationStatsSetItem(sim_stats, agent, as)
       IN  /\ sim_stats' = r.dict
           /\ stlast' = UnitCall("setitem", r.err,
                                 [agent |-> agent, stats |-> as], <<>>)
    /\ UNCHANGED <<sim, agents, bandit, rngs, run, agent_stats, log, first, heap>>
    /\ UNCHANGED <<blast, stratVars, agentVars>>

SSGetItem(agent) ==
    /\ LET r == SimulationStatsGetItem(sim_stats, agent)
       IN  stlast' = UnitCall("getitem", r.err, agent, r.ret)
    /\ UNCHANGED <<blast, stratVars, agentVars, simVars>>

SSContains(agent) ==
    /\ stlast' = UnitCall("contains", "none", agent,
                          SimulationStatsContains(sim_stats, agent))
    /\ UNCHANGED <<blast, stratVars, agentVars, simVars>>

NextSimStats ==
    \/ \E as \in AgentStatsValues : SSAdd(as)
    \/ \E a \in 1..MaxAgents, as \in AgentStatsValues : SSSetItem(a, as)
    \/ \E a \in 1..MaxAgents : SSGetItem(a)
    \/ \E a \in 1..MaxAgents : SSContains(a)

SpecSimStats ==
    InitSimStats /\ [][NextSimStats]_vars

\* ------------------------------------------------------------------ claims

\* Whether `reward` lies in the support strategy s accepts: any reward for the
\* sample-mean strategies, {0, 1} for Beta TS, [0, 1] for general Beta TS.
InSupport(s, reward) ==
    \/ s.kind # "betats"
    \/ s.general /\ RLe(RInt(0), reward) /\ RLe(reward, RInt(1))
    \/ ~s.general /\ reward \in {RInt(0), RInt(1)}

\* C2 (as stated): Agent.update succeeds exactly when a choose has been made
\* since the last prime and the last successful update; on success it passes
\* the recorded choice to the strategy and clears it; otherwise it raises and
\* changes neither the agent nor the strategy.
C2_UpdateSucceedsIffChosen ==
    [][last'.op = "update" =>
          /\ (last'.err = "none") <=> (chooses > 0)
          /\ last'.err = "none" =>
                /\ last'.called
                /\ last'.passed = ag.choice
                /\ ag'.choice = None
          /\ last'.err # "none" => ag' = ag]_vars

\* C2 (amended): Agent.update gets past the agent's own check exactly when a
\* choose is pending; it then hands the recorded choice to the strategy and
\* clears it unless the strategy rejects the reward (Beta TS, reward outside
\* its support), in which case StrategyUsageError propagates and the agent
\* and the strategy are unchanged, the choice still pending.  With no pending
\* choice it raises AgentUsageError, calls nothing and changes nothing.
C2_UpdateNeedsPendingChoice ==
    [][last'.op = "update" =>
          IF chooses > 0
          THEN /\ ag.choice # None
               /\ last'.called
               /\ last'.passed = ag.choice
               /\ IF InSupport(ag.strategy, last'.reward)
                  THEN /\ last'.err = "none"
                       /\ ag'.choice = None
                       /\ ag'.primed
                  ELSE /\ last'.err = "StrategyUsageError"
                       /\ ag' = ag
          ELSE /\ ag.choice = None
               /\ last'.err = "AgentUsageError"
               /\ ~last'.called
               /\ ag' = ag]_vars

\* C2 witness: an update the strategy rejected, the choice still pending.
C2_Witness ==
    /\ last.op = "update"
    /\ last.err = "StrategyUsageError"
    /\ last.n > 0
    /\ ag.choice # None

\* C3: on an Agent that was never primed, choose, Qs and Ns raise
\* AgentUsageError without calling the strategy; once primed they succeed.
C3_UnprimedCallsRaise ==
    last.op \in {"choose", "Qs", "Ns"} =>
        IF ag.primed
        THEN last.err = "none" /\ last.called
        ELSE last.err = "AgentUsageError" /\ ~last.called

\* C3 witness: Qs read on a never-primed agent was refused.
C3_Witness ==
    /\ last.op = "Qs"
    /\ ~ag.primed
    /\ last.err = "AgentUsageError"

\* C4: for any sequence of calls on an Agent, between a prime or a successful
\* update and the next successful update there is exactly one choose call
\* (last.n counts the choose calls since the last prime or successful update).
C4_ExactlyOneChoosePerUpdate ==
    (last.op = "update" /\ last.err = "none") => last.n = 1

\* Number of calls `op` that run has made for agent a.
Count(op, a) ==
    Cardinality({i \in 1..Len(log) : log[i].op = op /\ log[i].agent = a})

\* The agents `for agent in self.agents` yields during run.
Iterated ==
    {AgentsIter(sim, agents)[i] : i \in 1..Len(AgentsIter(sim, agents))}

Terminated ==
    \/ sim.state = "failed"
    \/ run.pc \in {"returned", "raised"}

\* C1: in every step of every trial the calls occur in the order choose,
\* play, update, stats-update: the arm played is the one just chosen, both
\* updates get the reward play returned, and a step starts only after the
\* prime of its trial or the stats-update of the previous step.
C1_StepOrder ==
    \A i \in 1..Len(log) :
        LET e == log[i]
            p == log[i - 1]
        IN  /\ e.op \in {"choose", "play", "update", "stats"} =>
                  i > 1 /\ p.agent = e.agent
            /\ e.op = "choose" =>
                  \/ p.op = "prime" /\ e.step = 0
                  \/ p.op = "stats" /\ e.step = p.step + 1
            /\ e.op = "play" =>
                  p.op = "choose" /\ e.step = p.step /\ e.arm = p.arm
            /\ e.op = "update" =>
                  /\ p.op = "play" /\ e.step = p.step
                  /\ e.arm = p.arm /\ e.reward = p.reward
            /\ e.op = "stats" =>
                  /\ p.op = "update" /\ e.step = p.step
                  /\ e.arm = p.arm /\ e.reward = p.reward

\* C1 witness: the second step of a trial has been recorded in the stats.
C1_Witness ==
    \E i \in 1..Len(log) : log[i].op = "stats" /\ log[i].step = 1

\* The call counts the claims C5 and C7 state for agent a.
ExactCounts(a) ==
    /\ Count("prime", a) = run.trials
    /\ Count("choose", a) = run.trials * run.steps
    /\ Count("play", a) = run.trials * run.steps
    /\ Count("update", a) = run.trials * run.steps
    /\ Count("stats", a) = run.trials * run.steps

\* C5 (as stated): when run(trials, steps) has terminated, it has called, for
\* each agent, prime exactly `trials` times and choose, play, update and
\* AgentStats.update exactly trials*steps times each.
C5_TerminatedWithExactCounts ==
    run.pc \in {"returned", "raised"} =>
        \A a \in 1..Len(agents) : ExactCounts(a)

\* C5 (amended): run(trials, steps) terminates for every trials >= 0 and
\* steps >= 0, by returning or by propagating the StrategyUsageError of a
\* Beta TS strategy that rejected a reward outside its support.  When it
\* returns, it has called prime exactly `trials` times and choose, play,
\* update and AgentStats.update exactly trials*steps times each for every
\* agent that iterating self.agents yielded, and made no call for any other.
C5_RunTerminates ==
    <>(/\ Terminated
       /\ run.pc = "returned" =>
              \A a \in 1..Len(agents) :
                  IF a \in Iterated
                  THEN ExactCounts(a)
                  ELSE \A i \in 1..Len(log) : log[i].agent # a
       /\ run.pc = "raised" =>
              /\ run.err = "StrategyUsageError"
              /\ agents[run.agent].strategy.kind = "betats"
              /\ ~InSupport(agents[run.agent].strategy, run.reward))

\* C5 witness: a run of two agents, two trials and two steps has returned.
C5_Witness ==
    /\ run.pc = "returned"
    /\ run.trials = 2
    /\ run.steps = 2
    /\ Len(agents) = 2
    /\ Count("stats", 2) = 4

\* C6: after run(trials, steps) has returned, counts[s] = trials for every
\* step s in 0..steps-1 of every AgentStats of the result.
C6_CountsEqualTrials ==
    run.pc = "returned" =>
        \A a \in DOMAIN sim_stats :
            /\ Len0(sim_stats[a].counts) = run.steps
            /\ \A s \in 0..(run.steps - 1) : sim_stats[a].counts[s] = run.trials

\* C6 witness: a returned run with trials, steps >= 1 and a non-empty result.
C6_Witness ==
    /\ run.pc = "returned"
    /\ run.trials >= 2
    /\ run.steps >= 1
    /\ DOMAIN sim_stats # {}

\* C7: for a Simulation constructed successfully from any iterable of agents
\* or strategies, the SimulationStats run returns holds an AgentStats for
\* every supplied agent, stored under its own agent, and every such agent
\* has been run for trials*steps steps.
C7_StatsForEverySuppliedAgent ==
    (sim.state = "ready" /\ run.pc = "returned") =>
        \A a \in 1..Len(agents) :
            /\ a \in DOMAIN sim_stats
            /\ sim_stats[a].agent = a
            /\ Count("stats", a) = run.trials * run.steps

\* C8: two Simulations constructed with the same seed, the same strategies
\* and a Bandit with the same arm parameters, run with the same trials and
\* steps, make the same calls with the same choices and rewards, end the same
\* way and produce identical statistics.
C8_SameSeedSameRun ==
    (first.done /\ run.pc \in {"returned", "raised"}) =>
        /\ log = first.log
        /\ sim_stats = first.stats
        /\ run.pc = first.pc

\* C9: every reward of a run is drawn from the Simulation's generator, never
\* from the Bandit's own, which run leaves where it was.
C9_PlayUsesRunRng ==
    /\ \A i \in 1..Len(log) : log[i].op = "play" => log[i].rng = sim.rng
    /\ bandit.rng # sim.rng => rngs[bandit.rng].pos = 0

\* C10 (as stated): for every variant and from any prior state, prime(k, steps)
\* leaves arrays of length k with every Ns[a] and every Qs[a] zero.
C10_PrimeZeroesQsAndNs ==
    slast.op = "prime" =>
        /\ Len0(StrategyNs(st)) = slast.arg
        /\ Len0(StrategyQs(st)) = slast.arg
        /\ \A i \in 0..(slast.arg - 1) :
              StrategyNs(st)[i] = 0 /\ StrategyQs(st)[i] = RInt(0)

\* C10 (amended): prime(k, steps) leaves arrays of length k with every Ns[a]
\* zero; Qs[a] is zero for Random, EpsilonGreedy, EpsilonFirst and UCB1 and is
\* the prior mean 1/2 (a = b = 1) for BetaThompsonSampling.  Nothing of an
\* earlier trial survives: the state equals that of a new strategy primed
\* with the same k and steps.
C10_PrimeResetsEstimators ==
    slast.op = "prime" =>
        /\ Len0(StrategyNs(st)) = slast.arg
        /\ Len0(StrategyQs(st)) = slast.arg
        /\ \A i \in 0..(slast.arg - 1) :
              /\ StrategyNs(st)[i] = 0
              /\ StrategyQs(st)[i] =
                    IF st.kind = "betats" THEN Rat(1, 2) ELSE RInt(0)
        /\ st.t = 0
        /\ st.explore = RFloor(RMulInt(st.eps, slast.steps)) * 
                           (IF st.kind = "epsfirst" THEN 1 ELSE 0)
        /\ st = StrategyPrime(NewStrategy(st.kind, st.eps, st.alpha, st.general),
                              slast.arg, slast.steps)

\* C10 witness: a Beta TS strategy that had recorded plays was primed again.
C10_Witness ==
    /\ slast.op = "prime"
    /\ slast.before > 0
    /\ st.kind = "betats"

\* Number of successful updates since the last prime whose choice was a.
UpdatesOf(a) ==
    Cardinality({i \in 1..Len(supd) : supd[i][1] = a})

\* Sum of the rewards of the first n of those updates whose choice was a.
RECURSIVE RewardSumTo(_, _)
RewardSumTo(a, n) ==
    IF n = 0 THEN RInt(0)
    ELSE IF supd[n][1] = a THEN RAdd(RewardSumTo(a, n - 1), supd[n][2])
    ELSE RewardSumTo(a, n - 1)

RewardSum(a) ==
    RewardSumTo(a, Len(supd))

\* C11: for Random, EpsilonGreedy and EpsilonFirst, after t update calls since
\* the last prime, sum(Ns) = t and Ns[a] is the number of those updates whose
\* choice was a.
C11_NsCountUpdates ==
    (IsSemiUniform(st) /\ StrategyPrimed(st)) =>
        /\ Sum0(st.Ns) = Len(supd)
        /\ \A a \in DOMAIN st.Ns : st.Ns[a] = UpdatesOf(a)

\* C11 witness: a sample-mean strategy updated on two different arms.
C11_Witness ==
    /\ IsSemiUniform(st)
    /\ slast.op = "update"
    /\ Len(supd) = 2
    /\ supd[1][1] # supd[2][1]

\* C12: for Random, EpsilonGreedy, EpsilonFirst and UCB1, after any sequence
\* of updates since the last prime, Qs[a] * Ns[a] is the sum of the rewards of
\* the updates whose choice was a (Qs[a] is their arithmetic mean), and Qs[a]
\* is 0 for an arm that was never updated.
C12_QsIsMeanReward ==
    (st.kind # "betats" /\ StrategyPrimed(st)) =>
        \A a \in DOMAIN st.Qs :
            /\ RMulInt(st.Qs[a], st.Ns[a]) = RewardSum(a)
            /\ UpdatesOf(a) = 0 => st.Qs[a] = RInt(0)
            /\ UpdatesOf(a) > 0 => st.Qs[a] = RDivInt(RewardSum(a), UpdatesOf(a))

\* C12 witness: UCB1 updated twice on one arm with two different rewards.
C12_Witness ==
    /\ st.kind = "ucb1"
    /\ slast.op = "update"
    /\ Len(supd) = 2
    /\ supd[1][1] = supd[2][1]
    /\ supd[1][2] # supd[2][2]

\* C13: for UCB1 primed with k arms, the choose made after j < k updates of
\* the trial returns j, whatever the generator yields and whatever rewards and
\* choices the updates were given: with one update per choose the first k
\* choices are 0, 1, ..., k-1 in that order.
C13_UCB1FirstChoicesInOrder ==
    (st.kind = "ucb1" /\ slast.op = "choose" /\ slast.err = "none"
        /\ Len(supd) < StrategyK(st)) =>
        /\ slast.before = Len(supd)
        /\ slast.ret = Len(supd)

\* C13 witness: the second choose of a trial with two arms returned arm 1
\* after an update that was given reward 2.
C13_Witness ==
    /\ st.kind = "ucb1"
    /\ slast.op = "choose"
    /\ StrategyK(st) = 2
    /\ Len(supd) = 1
    /\ supd[1][2] = RInt(2)
    /\ slast.ret = 1

\* C14: for BetaThompsonSampling, in every state reachable after prime,
\* Ns[a] = a[a] + b[a] - 2 for every arm a, and this is the number of
\* successful updates whose choice was a since the last prime.
C14_BetaTSNsCountUpdates ==
    (st.kind = "betats" /\ StrategyPrimed(st)) =>
        \A a \in DOMAIN st.a :
            /\ StrategyNs(st)[a] = st.a[a] + st.b[a] - 2
            /\ StrategyNs(st)[a] = UpdatesOf(a)

\* C14 witness: a general Beta TS strategy after one successful update and
\* then a refused one.
C14_Witness ==
    /\ st.kind = "betats"
    /\ st.general
    /\ Len(supd) = 1
    /\ slast.op = "update"
    /\ slast.err = "StrategyUsageError"

\* C15: BetaThompsonSampling.update given a generator raises a usage error
\* when general = False and the reward is not exactly 0 or 1, and when
\* general = True and the reward lies outside [0, 1]; a reward inside the
\* accepted support is never rejected.
C15_BetaTSRejectsOutsideSupport ==
    (st.kind = "betats" /\ slast.op = "update" /\ sarg.hasRng) =>
        /\ st.general =>
              ((slast.err = "StrategyUsageError") <=>
                  (RLt(sarg.reward, RInt(0)) \/ RLt(RInt(1), sarg.reward)))
        /\ ~st.general =>
              ((slast.err = "StrategyUsageError") <=>
                  (sarg.reward \notin {RInt(0), RInt(1)}))
        /\ slast.err \in {"none", "StrategyUsageError"}

\* C15 witness: the non-general variant refused the reward 1/2.
C15_Witness ==
    /\ st.kind = "betats"
    /\ ~st.general
    /\ slast.op = "update"
    /\ sarg.hasRng
    /\ sarg.reward = Rat(1, 2)
    /\ slast.err = "StrategyUsageError"

\* C16: BetaThompsonSampling.update called without a generator raises a usage
\* error, for general = True and general = False alike, from the generator
\* check (so before any reward check) and without changing the posterior.
C16_BetaTSUpdateNeedsRng ==
    [][(slast'.op = "update" /\ st.kind = "betats" /\ ~sarg'.hasRng) =>
          /\ slast'.err = "StrategyUsageError"
          /\ sarg'.check = "rng"
          /\ st' = st
          /\ supd' = supd]_vars

\* C16 witness: an update without generator and with a reward outside the
\* support was refused by the generator check.
C16_Witness ==
    /\ st.kind = "betats"
    /\ slast.op = "update"
    /\ ~sarg.hasRng
    /\ sarg.reward = RInt(2)
    /\ sarg.check = "rng"
    /\ slast.err = "StrategyUsageError"

\* The indices of the arms of maximal mean.
MaxMeanArms(b) ==
    {c \in DOMAIN b.arms :
        \A j \in DOMAIN b.arms : RLe(ArmMean(b.arms[j]), ArmMean(b.arms[c]))}

\* The indices best_arm() can return, over the draws of its generator.
BestArms(b) ==
    {BanditBestArm(b, r) : r \in Draws}

\* C17: for every valid choice c, regret(c) = max(means) - means[c] >= 0,
\* and is_opt(c) holds iff regret(c) = 0 iff c is an index best_arm() can
\* return; every arm tied at the maximal mean is optimal with regret 0.
C17_RegretOptBestArmAgree ==
    /\ (blast.op = "regret" /\ blast.arg \in DOMAIN BanditMeans(bandit)) =>
          LET means == BanditMeans(bandit)
              top   == RAdd(means[blast.arg], blast.ret)
          IN  /\ RLe(RInt(0), blast.ret)
              /\ \A j \in DOMAIN means : RLe(means[j], top)
              /\ \E j \in DOMAIN means : means[j] = top
              /\ (blast.ret = RInt(0)) <=> BanditIsOpt(bandit, blast.arg)
              /\ (blast.ret = RInt(0)) <=> (blast.arg \in BestArms(bandit))
              /\ blast.arg \in MaxMeanArms(bandit) => blast.ret = RInt(0)
    /\ (blast.op = "is_opt" /\ blast.arg \in DOMAIN BanditMeans(bandit)) =>
          /\ blast.ret <=> (BanditRegret(bandit, blast.arg) = RInt(0))
          /\ blast.ret <=> (blast.arg \in BestArms(bandit))
          /\ blast.arg \in MaxMeanArms(bandit) => blast.ret

\* C17 witness: is_opt answered True for an arm tied at the maximal mean
\* that is not the first such arm.
C17_Witness ==
    /\ blast.op = "is_opt"
    /\ blast.err = "none"
    /\ blast.arg >= 0
    /\ blast.ret
    /\ \E j \in 0..(blast.arg - 1) : j \in MaxMeanArms(bandit)

\* C18: best_arm() returns an index whose mean is max(means); the indices
\* it can return are exactly the arms of maximal mean, so a unique maximum
\* is returned on every call and every tied arm is a possible result.
C18_BestArmIsAnyMaxMeanArm ==
    /\ BanditLen(bandit) > 0 => BestArms(bandit) = MaxMeanArms(bandit)
    /\ (blast.op = "best_arm" /\ BanditLen(bandit) > 0) =>
          /\ blast.err = "none"
          /\ blast.ret \in MaxMeanArms(bandit)
          /\ Cardinality(MaxMeanArms(bandit)) = 1 =>
                 blast.ret = Candidates(BanditMeans(bandit))[1]

\* C18 witness: best_arm returned a tied arm that is not the one of lowest
\* index.
C18_Witness ==
    /\ blast.op = "best_arm"
    /\ blast.err = "none"
    /\ \E j \in 0..(blast.ret - 1) : j \in MaxMeanArms(bandit)

\* What an update with arguments a adds to the sum of base metric m.
StatsDelta(m, a) ==
    CASE m = "REGRET"     -> BanditRegret(bandit, a.choice)
      [] m = "OPTIMALITY" -> IF a.choice \in MaxMeanArms(bandit)
                             THEN RInt(1) ELSE RInt(0)
      [] m = "REWARDS"    -> a.reward

\* C19: AgentStats tracks the base metrics of the requested metrics (all
\* three when the metrics argument is left out); update(step, choice, reward)
\* adds 1 to counts[step] and adds regret(choice), the optimality indicator
\* and reward to entry `step` of exactly the tracked sums; every other entry
\* is unchanged and no sum is created for an untracked base metric.
C19_UpdateTouchesTrackedSumsOnly ==
    [][/\ stlast'.op = "new" =>
             /\ DOMAIN agent_stats'.stats =
                    IF stlast'.arg.given
                    THEN {MetricBase(m) : m \in stlast'.arg.metrics}
                    ELSE {"REGRET", "OPTIMALITY", "REWARDS"}
             /\ \A m \in DOMAIN agent_stats'.stats :
                    agent_stats'.stats[m] = RZeros(stlast'.arg.steps)
             /\ agent_stats'.counts = Zeros(stlast'.arg.steps)
       /\ stlast'.op = "update" =>
             LET a == stlast'.arg
             IN  /\ DOMAIN agent_stats'.counts = DOMAIN agent_stats.counts
                 /\ \A s \in DOMAIN agent_stats.counts :
                        agent_stats'.counts[s] =
                           agent_stats.counts[s] + (IF s = a.step THEN 1 ELSE 0)
                 /\ DOMAIN agent_stats'.stats = DOMAIN agent_stats.stats
                 /\ \A m \in DOMAIN agent_stats.stats :
                        \A s \in DOMAIN agent_stats.counts :
                           agent_stats'.stats[m][s] =
                              IF s = a.step
                              THEN RAdd(agent_stats.stats[m][s], StatsDelta(m, a))
                              ELSE agent_stats.stats[m][s]]_vars

\* C19 witness: an AgentStats tracking Regret alone (requested through its
\* cumulative metric) has recorded a positive regret at step 1 and nothing
\* at step 0.
C19_Witness ==
    /\ stlast.op = "update"
    /\ DOMAIN agent_stats.stats = {"REGRET"}
    /\ stlast.arg.step = 1
    /\ RLt(RInt(0), agent_stats.stats["REGRET"][1])
    /\ agent_stats.counts[0] = 0
    /\ agent_stats.counts[1] > 0

\* The average of base metric m at step s: sum[s] / counts[s].
StatsAvg(as, m, s) ==
    RDivExt(as.stats[m][s], as.counts[s])

RECURSIVE StatsAvgPrefix(_, _, _)
\* The sum over i <= s of the averages of base metric m.
StatsAvgPrefix(as, m, s) ==
    IF s = 0 THEN StatsAvg(as, m, 0)
    ELSE RAddExt(StatsAvgPrefix(as, m, s - 1), StatsAvg(as, m, s))

\* C20: AgentStats[metric] returns the per-step averages sum[s]/counts[s]
\* for a base metric, and for a cumulative metric the prefix sums of the
\* averages of its base metric.
C20_GetAveragesThenAccumulates ==
    (stlast.op = "get" /\ stlast.err = "none") =>
        LET m == stlast.arg
        IN  /\ DOMAIN stlast.ret = 0..(agent_stats.steps - 1)
            /\ \A s \in DOMAIN stlast.ret :
                   stlast.ret[s] =
                      IF m \in {"REGRET", "OPTIMALITY", "REWARDS"}
                      THEN StatsAvg(agent_stats, m, s)
                      ELSE StatsAvgPrefix(agent_stats,
                               IF m = "CUM_REGRET" THEN "REGRET" ELSE "REWARDS", s)

\* C20 witness: cumulative rewards read where the two steps were updated a
\* different number of times and both averages are positive.
C20_Witness ==
    /\ stlast.op = "get"
    /\ stlast.err = "none"
    /\ stlast.arg = "CUM_REWARDS"
    /\ agent_stats.steps = 2
    /\ agent_stats.counts[0] = 2
    /\ agent_stats.counts[1] = 1
    /\ RLt(RInt(0), agent_stats.stats["REWARDS"][0])
    /\ RLt(stlast.ret[0], stlast.ret[1])

\* C21: reading AgentStats[metric] changes neither the counts nor any sum;
\* a second read of the same metric with no update in between returns the
\* same array, and a read leaves what every other metric reads as unchanged.
C21_GetIsPureRead ==
    [][stlast'.op = "get" =>
          /\ agent_stats'.counts = agent_stats.counts
          /\ agent_stats'.stats = agent_stats.stats
          /\ (stlast.op = "get" /\ stlast.arg = stlast'.arg) =>
                 stlast'.ret = stlast.ret
          /\ \A m \in AllMetrics :
                 AgentStatsGet(agent_stats', m) = AgentStatsGet(agent_stats, m)
          /\ AgentStatsGet(agent_stats', stlast'.arg).ret = stlast'.ret]_vars

\* C21 witness: cumulative regret was read from an AgentStats holding a
\* positive regret sum, and the sum is still the sum of two updates.
C21_Witness ==
    /\ stlast.op = "get"
    /\ stlast.err = "none"
    /\ stlast.arg = "CUM_REGRET"
    /\ agent_stats.steps > 0
    /\ agent_stats.counts[0] = 2
    /\ RLt(RInt(0), agent_stats.stats["REGRET"][0])

\* C22: reading a tracked metric never raises, whatever the counts are: a
\* step whose count is zero reads as not-a-number, and the sums and counts
\* are left as they were.
C22_GetWithZeroCountsIsNaN ==
    [][(stlast'.op = "get" /\ MetricBase(stlast'.arg) \in DOMAIN agent_stats.stats) =>
          /\ stlast'.err = "none"
          /\ DOMAIN stlast'.ret = DOMAIN agent_stats.counts
          /\ \A s \in DOMAIN agent_stats.counts :
                 agent_stats.counts[s] = 0 => stlast'.ret[s] = RNaN
          /\ agent_stats' = agent_stats]_vars

\* C22 witness: rewards were read with step 0 updated and step 1 never
\* updated: step 0 reads as a number and step 1 as not-a-number.
C22_Witness ==
    /\ stlast.op = "get"
    /\ stlast.err = "none"
    /\ stlast.arg = "REWARDS"
    /\ agent_stats.steps = 2
    /\ agent_stats.counts[0] > 0
    /\ agent_stats.counts[1] = 0
    /\ stlast.ret[0] # RNaN
    /\ stlast.ret[1] = RNaN

\* The metrics computed from base metric b: b itself and its cumulative
\* variant, if it has one.
MetricsOver(b) ==
    CASE b = "REGRET"  -> {"REGRET", "CUM_REGRET"}
      [] b = "REWARDS" -> {"REWARDS", "CUM_REWARDS"}
      [] OTHER         -> {b}

\* C23: every metric is a base metric (its base is itself) or has one base
\* that is a base metric; map_to_base(M) is exactly the set of the bases of
\* the metrics in M: base metrics only, the base of every requested metric,
\* no duplicates, and unchanged when mapped again.
C23_BasesAreOneLevelDeep ==
    /\ stlast.op = "is_base" =>
          stlast.ret <=> (MetricBase(stlast.arg) = stlast.arg)
    /\ stlast.op = "base" =>
          /\ stlast.ret \in AllMetrics
          /\ MetricIsBase(stlast.ret)
          /\ MetricBase(stlast.ret) = stlast.ret
          /\ stlast.arg \in MetricsOver(stlast.ret)
          /\ MetricIsBase(stlast.arg) <=> (stlast.ret = stlast.arg)
    /\ stlast.op = "map_to_base" =>
          /\ \A b \in AllMetrics :
                 b \in stlast.ret <=>
                    /\ MetricIsBase(b)
                    /\ \E i \in DOMAIN stlast.arg : stlast.arg[i] \in MetricsOver(b)
          /\ stlast.ret \subseteq AllMetrics
          /\ \A i \in DOMAIN stlast.arg : MetricBase(stlast.arg[i]) \in stlast.ret
          /\ Cardinality(stlast.ret) <= Len(stlast.arg)
          /\ MapToBase(stlast.ret) = stlast.ret

\* C23 witness: a list naming cumulative regret twice and regret once was
\* traced to the single base metric regret.
C23_Witness ==
    /\ stlast.op = "map_to_base"
    /\ stlast.arg = <<"CUM_REGRET", "REGRET", "CUM_REGRET">>
    /\ stlast.ret = {"REGRET"}

\* C24: SimulationStats[agent] = agent_stats raises StatsUsageError and
\* leaves the mapping unchanged when agent is not the agent of agent_stats;
\* otherwise the entry is stored, SimulationStats[agent] returns it and
\* `agent in stats` is true.  Hence every entry is keyed by its own agent.
C24_SetItemRejectsMismatch ==
    /\ [](\A k \in DOMAIN sim_stats : sim_stats[k].agent = k)
    /\ [][stlast'.op = "setitem" =>
             LET a == stlast'.arg.agent
                 v == stlast'.arg.stats
             IN  IF a # v.agent
                 THEN /\ stlast'.err = "StatsUsageError"
                      /\ sim_stats' = sim_stats
                 ELSE /\ stlast'.err = "none"
                      /\ DOMAIN sim_stats' = DOMAIN sim_stats \cup {a}
                      /\ sim_stats'[a] = v
                      /\ \A k \in DOMAIN sim_stats : k # a => sim_stats'[k] = sim_stats[k]
                      /\ SimulationStatsGetItem(sim_stats', a) =
                            [err |-> "none", ret |-> v]
                      /\ SimulationStatsContains(sim_stats', a)]_vars

\* C24 witness: an assignment under the key of another agent was refused
\* while the mapping already held that key's own entry.
C24_Witness ==
    /\ stlast.op = "setitem"
    /\ stlast.err = "StatsUsageError"
    /\ stlast.arg.agent \in DOMAIN sim_stats
    /\ sim_stats[stlast.arg.agent].agent = stlast.arg.agent
    /\ stlast.arg.stats.agent # stlast.arg.agent

\* The AgentStats objects SimulationStats object d refers to.
HeapRefs(h, d) ==
    {h.dicts[d][a] : a \in DOMAIN h.dicts[d]}

\* C25: a second run of the same Simulation fills a new SimulationStats
\* with new AgentStats: the counts and sums of the stats the first run
\* returned stay as they were returned, and the second result counts the
\* trials of the second run only.
C25_SecondRunLeavesFirstStats ==
    first.done =>
        /\ HeapStats(heap, heap.retd) = first.stats
        /\ heap.curd # heap.retd
        /\ HeapRefs(heap, heap.curd) \cap HeapRefs(heap, heap.retd) = {}
        /\ heap.cur \notin HeapRefs(heap, heap.retd)
        /\ sim_stats = HeapStats(heap, heap.curd)
        /\ (run.pc = "trials" /\ run.trial = 0) =>
               heap.objs[heap.cur].counts = Zeros(run.steps)
        /\ run.pc = "returned" =>
               \A a \in DOMAIN sim_stats :
                  sim_stats[a].counts = [s \in 0..(run.steps - 1) |-> run.trials]

\* C25 witness: the second run has returned with two trials counted for an
\* agent whose stats from the first run still count one trial.
C25_Witness ==
    /\ first.done
    /\ run.pc = "returned"
    /\ \E a \in DOMAIN sim_stats \cap DOMAIN first.stats :
          /\ first.stats[a].steps > 0
          /\ sim_stats[a].steps > 0
          /\ HeapStats(heap, heap.retd)[a].counts[0] = 1
          /\ sim_stats[a].counts[0] = 2

\* The errors of mabby.exceptions, raised when methods are used incorrectly.
UsageErrors ==
    {"AgentUsageError", "SimulationUsageError", "StatsUsageError",
     "StrategyUsageError"}

\* Whether Simulation(...) has been called.
Constructed ==
    sim.state # "new"

\* C26 (as stated): a Simulation given an empty agent or strategy list
\* fails with a usage error and one given a bandit without arms fails with
\* a construction error (ValueError); no Simulation is created.
C26_EmptyListIsUsageError ==
    /\ (Constructed /\ sim.source # "none" /\ Len(agents) = 0) =>
          sim.state = "failed" /\ sim.err \in UsageErrors
    /\ (Constructed /\ Len(agents) > 0 /\ BanditLen(bandit) = 0) =>
          sim.state = "failed" /\ sim.err = "ValueError"
    /\ sim.state = "failed" => run = NoRun

\* C26 (amended): a Simulation given an empty agent or strategy list, or a
\* bandit without arms, fails with ValueError, the error of invalid
\* construction parameters; the usage error SimulationUsageError is raised
\* only when neither agents nor strategies are given.  In each case no
\* Simulation is created, so nothing is ever run; otherwise construction
\* succeeds.
C26_EmptyInputsRaiseValueError ==
    /\ Constructed =>
          IF sim.source = "none"
          THEN sim.state = "failed" /\ sim.err = "SimulationUsageError"
          ELSE IF Len(agents) = 0 \/ BanditLen(bandit) = 0
          THEN sim.state = "failed" /\ sim.err = "ValueError"
          ELSE sim.state = "ready" /\ sim.err = "none"
    /\ sim.state = "failed" =>
          run = NoRun /\ sim_stats = <<>> /\ log = <<>>

\* C26 witness: construction with agents but a bandit without arms failed.
C26_Witness ==
    /\ sim.state = "failed"
    /\ sim.err = "ValueError"
    /\ Len(agents) > 0
    /\ BanditLen(bandit) = 0

\* C28: indexed access, play(i), is_opt(i) and regret(i) fail for every
\* index outside 0..len-1, negative indices included; no value computed
\* from an arm is returned for such an index.
C28_IndexBoundsEnforced ==
    (/\ blast.op \in {"getitem", "play", "is_opt", "regret"}
     /\ blast.arg \notin 0..(BanditLen(bandit) - 1)) =>
        blast.err # "none"

\* C27 (as stated): no Bandit without arms can be constructed, directly
\* from an arm list or through Arm.bandit.
C27_NoEmptyBandit ==
    (blast.op \in {"Bandit", "Arm.bandit"} /\ blast.err = "none") =>
        BanditLen(blast.ret) > 0

\* Whether value x is in the domain of parameter `name`.
ParamValid(name, x) ==
    CASE name = "p"     -> RLe(RInt(0), x) /\ RLe(x, RInt(1))
      [] name = "scale" -> RLe(RInt(0), x)
      [] OTHER          -> TRUE

\* C29: Arm.bandit, given a list for each parameter of the arm class,
\* builds a Bandit with as many arms as the shortest list has values, arm j
\* taking the j-th value of every list (values in range; what longer lists
\* hold beyond that is ignored); with no list or an empty shortest list it
\* raises ValueError and builds nothing.
C29_ArmBanditZipsShortest ==
    (/\ blast.op = "Arm.bandit"
     /\ DOMAIN blast.arg.lists \in {{}, ArmParams(blast.arg.kind)}) =>
        LET lists == blast.arg.lists
            names == DOMAIN lists
            short(n) == /\ \A x \in names : Len(lists[x]) >= n
                        /\ \E x \in names : Len(lists[x]) = n
        IN  IF names = {} \/ short(0)
            THEN blast.err = "ValueError" /\ blast.ret = <<>>
            ELSE \E n \in 1..MaxParams :
                    /\ short(n)
                    /\ IF \A x \in names : \A j \in 1..n : ParamValid(x, lists[x][j])
                       THEN /\ blast.err = "none"
                            /\ BanditLen(blast.ret) = n
                            /\ \A j \in 1..n :
                                  LET arm == BanditGetItem(blast.ret, j - 1)
                                  IN  /\ arm.kind = blast.arg.kind
                                      /\ \A x \in names : arm[x] = lists[x][j]
                       ELSE blast.err = "ValueError" /\ blast.ret = <<>>

\* C29 witness: Gaussian arms from one loc and two scale values, the second
\* scale negative: one arm was built and the surplus value never looked at.
C29_Witness ==
    /\ blast.op = "Arm.bandit"
    /\ blast.err = "none"
    /\ blast.arg.kind = "gaussian"
    /\ DOMAIN blast.arg.lists = {"loc", "scale"}
    /\ Len(blast.arg.lists.loc) = 1
    /\ Len(blast.arg.lists.scale) = 2
    /\ RLt(blast.arg.lists.scale[2], RInt(0))
    /\ BanditLen(blast.ret) = 1

MaxQArms(s) ==
    {i \in DOMAIN s.Qs : \A j \in DOMAIN s.Qs : RLe(s.Qs[j], s.Qs[i])}

\* C31: a RandomStrategy and an EpsilonGreedyStrategy with eps = 1 that are
\* given the same prime arguments, the same raw draws and the same updates
\* hold the same Qs and Ns in every state and return the same value from
\* every call; no uniform draw is at or above their effective epsilon, so
\* every choice is the arm drawn by the explore branch.
C31_RandomIsEpsilonGreedyOne ==
    /\ StrategyQs(st) = StrategyQs(twin.st)
    /\ StrategyNs(st) = StrategyNs(twin.st)
    /\ slast.op = twin.last.op
    /\ slast.err = twin.last.err
    /\ slast.ret = twin.last.ret
    /\ \A r \in Draws :
          /\ RLt(RngRandom(r), effective_eps(st))
          /\ RLt(RngRandom(r), effective_eps(twin.st))
    /\ (slast.op = "choose") =>
          /\ slast.ret = SemiUniformExplore(st, sdraw[2])
          /\ twin.last.ret = SemiUniformExplore(twin.st, sdraw[2])

\* C31 witness: after two updates that left one arm strictly better, both
\* strategies chose an arm that is not the best one.
C31_Witness ==
    /\ st.kind = "random"
    /\ twin.st.kind = "epsgreedy"
    /\ Len(supd) = 2
    /\ slast.op = "choose"
    /\ twin.last.op = "choose"
    /\ MaxQArms(st) # DOMAIN st.Qs
    /\ slast.ret \notin MaxQArms(st)
    /\ twin.last.ret \notin MaxQArms(twin.st)

\* ------------------------------------------------------------------- C32
\* C32: a semi-uniform choose explores iff its uniform draw is below the
\* effective epsilon.  Exploring returns the index drawn from 0..k-1,
\* whatever Qs holds, and every index can be drawn; exploiting returns an arm
\* whose Q is maximal, and every arm tied at the maximum can be returned.
\* Effective epsilon 0 never explores, effective epsilon 1 always does.
C32_ExploreIffDrawBelowEps ==
    (IsSemiUniform(st) /\ sprime.k >= 1) =>
        LET k == sprime.k
            e == effective_eps(st)
        IN  /\ (slast.op = "choose") =>
                  IF RLt(RngRandom(sdraw[1]), e)
                  THEN /\ slast.ret = RngIntegers(sdraw[2], k)
                       /\ slast.ret \in 0..(k - 1)
                  ELSE slast.ret \in MaxQArms(st)
            /\ \A i \in 0..(k - 1) :
                  \E r \in Draws : SemiUniformExplore(st, r) = i
            /\ \A i \in MaxQArms(st) :
                  \E r \in Draws : SemiUniformExploit(st, r) = i
            /\ (e = RInt(0)) => \A r \in Draws : ~RLt(RngRandom(r), e)
            /\ (e = RInt(1)) => \A r \in Draws : RLt(RngRandom(r), e)
            /\ \A r \in Draws :
                  /\ RLe(RInt(0), RngRandom(r))
                  /\ RLt(RngRandom(r), RInt(1))

\* C32 witness: an epsilon-greedy strategy with 0 < eps < 1 whose arms differ
\* in Q explored an arm that is not the best one.
C32_Witness ==
    /\ st.kind = "epsgreedy"
    /\ st.eps = Rat(1, 2)
    /\ sprime.k = 2
    /\ slast.op = "choose"
    /\ RLt(RngRandom(sdraw[1]), effective_eps(st))
    /\ MaxQArms(st) # DOMAIN st.Qs
    /\ slast.ret \notin MaxQArms(st)

\* ------------------------------------------------------------------- C33
\* floor(eps * steps) for the most recent prime.
ExploreSteps ==
    RFloor(RMulInt(st.eps, sprime.steps))

\* C33: for an EpsilonFirstStrategy primed with `steps`, the counter of
\* remaining explorations is floor(eps * steps) less the updates since that
\* prime, and 0 once they reach it (so it is never negative and starts anew
\* at every prime); a choose made after fewer than floor(eps * steps) updates
\* explores, every later one exploits.
C33_EpsilonFirstExploresFirst ==
    (st.kind = "epsfirst" /\ sprime.k >= 1) =>
        /\ st.explore = IF Len(supd) < ExploreSteps
                         THEN ExploreSteps - Len(supd)
                         ELSE 0
        /\ st.explore >= 0
        /\ (slast.op = "prime") => st.explore = ExploreSteps
        /\ (slast.op = "choose") =>
              IF Len(supd) < ExploreSteps
              THEN slast.ret = SemiUniformExplore(st, sdraw[2])
              ELSE slast.ret = SemiUniformExploit(st, sdraw[2])

\* C33 witness: a trial of two steps with eps = 1/2; after the one
\* exploration step and its update, a further update left the counter at 0
\* and the choose that follows exploits where exploring would have picked
\* another arm.
C33_Witness ==
    /\ st.kind = "epsfirst"
    /\ st.eps = Rat(1, 2)
    /\ sprime.steps = 2
    /\ Len(supd) = 2
    /\ st.explore = 0
    /\ slast.op = "choose"
    /\ slast.ret = SemiUniformExploit(st, sdraw[2])
    /\ slast.ret # SemiUniformExplore(st, sdraw[2])

\* ------------------------------------------------------------------- C34
\* C34: for UCB1, t is 0 right after every prime, grows by exactly one on
\* every update and changes on no other call; in every state reachable after
\* a prime, t is the number of updates since the last prime and equals
\* sum(Ns).
C34_UCB1StepCount ==
    /\ [](  (st.kind = "ucb1" /\ StrategyPrimed(st)) =>
               /\ st.t = Len(supd)
               /\ st.t = Sum0(st.Ns)
               /\ (slast.op = "prime") => st.t = 0)
    /\ [][  (st.kind = "ucb1" /\ StrategyPrimed(st)) =>
               /\ (slast'.op = "update") => st'.t = st.t + 1
               /\ (slast'.op = "choose") => st'.t = st.t
               /\ (slast'.op = "prime") => st'.t = 0 ]_vars

\* C34 witness: two updates of the same arm, so that t = 2 counts the updates
\* and not the arms played.
C34_Witness ==
    /\ st.kind = "ucb1"
    /\ StrategyK(st) = 2
    /\ slast.op = "update"
    /\ Len(supd) = 2
    /\ supd[1][1] = supd[2][1]
    /\ st.t = 2

\* ------------------------------------------------------------------- C35
\* C35: a successful BetaThompsonSampling.update(choice, reward) adds exactly
\* one to a[choice] + b[choice] and changes no other arm.  The unit goes to
\* a[choice] for reward 1 and to b[choice] for reward 0; with general = False
\* no other reward is accepted, with general = True it goes where one
\* Bernoulli(reward) draw sends it.  a[i] >= 1 and b[i] >= 1 in every state.
C35_BetaTSUpdateAddsOne ==
    /\ [](  (st.kind = "betats" /\ StrategyPrimed(st)) =>
               \A i \in DOMAIN st.a : st.a[i] >= 1 /\ st.b[i] >= 1)
    /\ [][  (st.kind = "betats" /\ slast'.op = "update" /\ slast'.err = "none") =>
               LET c == slast'.arg
                   r == sarg'.reward
                   da == st'.a[c] - st.a[c]
                   db == st'.b[c] - st.b[c]
               IN  /\ da + db = 1
                   /\ da \in {0, 1}
                   /\ \A i \in DOMAIN st.a \ {c} :
                         st'.a[i] = st.a[i] /\ st'.b[i] = st.b[i]
                   /\ DOMAIN st'.a = DOMAIN st.a
                   /\ DOMAIN st'.b = DOMAIN st.b
                   /\ (r = RInt(1)) => da = 1
                   /\ (r = RInt(0)) => db = 1
                   /\ ~st.general => r \in {RInt(0), RInt(1)}
                   /\ st.general => \E d \in Draws : da = RngBinomial(d, r) ]_vars

\* C35 witness: a general strategy given the reward 1/2 twice for arm 0; one
\* Bernoulli draw went to a and the other to b.
C35_Witness ==
    /\ st.kind = "betats"
    /\ st.general
    /\ StrategyK(st) = 2
    /\ slast.op = "update"
    /\ slast.err = "none"
    /\ supd = <<(<<0, Rat(1, 2)>>), (<<0, Rat(1, 2)>>)>>
    /\ st.a = Arr(<<2, 1>>)
    /\ st.b = Arr(<<2, 1>>)

\* ------------------------------------------------------------------- C39
SampleMeanKinds ==
    {"random", "epsgreedy", "epsfirst", "ucb1"}

\* C39: for Random, EpsilonGreedy, EpsilonFirst and UCB1, update(choice,
\* reward) adds exactly one to Ns[choice] and leaves Qs and Ns of every other
\* arm as they were; choose leaves every estimate, count and counter as it
\* was.
C39_UpdateTouchesChosenArmOnly ==
    [][  (st.kind \in SampleMeanKinds /\ StrategyPrimed(st)) =>
           /\ (slast'.op = "update") =>
                 LET c == slast'.arg
                 IN  /\ st'.Ns[c] = st.Ns[c] + 1
                     /\ DOMAIN st'.Ns = DOMAIN st.Ns
                     /\ DOMAIN st'.Qs = DOMAIN st.Qs
                     /\ \A i \in DOMAIN st.Ns \ {c} :
                           st'.Ns[i] = st.Ns[i] /\ st'.Qs[i] = st.Qs[i]
           /\ (slast'.op = "choose") =>
                 /\ st'.Qs = st.Qs
                 /\ st'.Ns = st.Ns
                 /\ st'.t = st.t
                 /\ st'.explore = st.explore ]_vars

\* C39 witness: an update of arm 1 after arm 0 was given a non-zero estimate.
C39_Witness ==
    /\ st.kind \in SampleMeanKinds
    /\ slast.op = "update"
    /\ Len(supd) = 2
    /\ supd[1][1] = 0
    /\ supd[2][1] = 1
    /\ st.Qs[0] # RInt(0)
    /\ st.Ns = Arr(<<1, 1>>)

\* ------------------------------------------------------------------- C36
\* C36: with UCB1 driven through an Agent, whenever choose evaluates the UCB
\* formula (t >= k) every arm has been played (Ns[a] >= 1), so every UCB is a
\* finite number and choose does not raise; this holds after several choose
\* calls in a row and after a re-prime that cut a trial short.
C36_UCBNeverDividesByZero ==
    (ag.strategy.kind = "ucb1" /\ ag.primed) =>
        LET s == ag.strategy
        IN  /\ (s.t >= Len0(s.Ns)) =>
                  /\ \A a \in DOMAIN s.Ns : s.Ns[a] >= 1
                  /\ \A a \in DOMAIN s.Ns : UCB1ComputeUCBs(s)[a][2] # 0
                  /\ ~StrategyChooseRaises(s)
            /\ (s.t < Len0(s.Ns)) =>
                  \A a \in DOMAIN s.Ns : s.Ns[a] = IF a < s.t THEN 1 ELSE 0
            /\ (last.op = "choose") => last.err = "none"

\* C36 witness: a second choose in a row, made with the UCB formula, in a
\* trial of two arms.
C36_Witness ==
    /\ ag.strategy.kind = "ucb1"
    /\ aprime = 2
    /\ ag.strategy.t = 2
    /\ last.op = "choose"
    /\ last.err = "none"
    /\ last.n = 1

C40_RejectedUpdateChangesNothing ==
    /\ [](  (ag.strategy.kind = "betats" /\ ag.primed) =>
               \A c \in DOMAIN ag.strategy.a, r \in Rewards, h \in BOOLEAN,
                  d \in [1..1 -> Draws] :
                     LET u == BetaTSUpdate(ag.strategy, c, r, h, d)
                     IN  /\ (~h \/ ~InSupport(ag.strategy, r)) <=> u.err # "none"
                         /\ (u.err # "none") => u.strategy = ag.strategy)
    /\ [][  /\ (last'.op = "update" /\ last'.err = "StrategyUsageError") =>
                  /\ ag.choice # None
                  /\ ag' = ag
            /\ (rejected /\ ag.choice # None /\ last'.op = "update"
                   /\ InSupport(ag.strategy, last'.reward)) =>
                 LET c == ag.choice
                     s == ag.strategy
                 IN  /\ last'.err = "none"
                     /\ last'.passed = c
                     /\ ag'.choice = None
                     /\ ag'.strategy.a[c] + ag'.strategy.b[c] = s.a[c] + s.b[c] + 1
                     /\ \A i \in DOMAIN s.a \ {c} :
                           /\ ag'.strategy.a[i] = s.a[i]
                           /\ ag'.strategy.b[i] = s.b[i] ]_vars

\* C40 witness: an update that succeeded on arm 1 after a rejected one, no
\* choose in between.
C40_Witness ==
    /\ ag.strategy.kind = "betats"
    /\ rejected
    /\ last.op = "update"
    /\ last.err = "none"
    /\ last.passed = 1
    /\ ag.choice = None

\* ------------------------------------------------------------------- C37
\* C37: after Simulation.run(trials, steps) with trials >= 1 has returned,
\* the strategy of every agent of the simulation holds the estimates of the
\* last trial only: sum(agent.Ns) = steps, not trials * steps.
C37_OnlyLastTrialKept ==
    (sim.state = "ready" /\ run.pc = "returned" /\ run.trials >= 1) =>
        \A a \in 1..Len(agents) :
            /\ agents[a].primed
            /\ Sum0(StrategyNs(agents[a].strategy)) = run.steps

====
